---- MODULE Spec2Model ----
(***************************************************************************)
(* A model of httprunner's template resolution engine (parser.py) and of   *)
(* its session runner (runner.py, step_testcase.py).                       *)
(*                                                                         *)
(* Text is a sequence of one-character strings.  A Python value is a       *)
(* tagged pair: <<"str", chars>>, <<"int", n>>, <<"list", items>>,         *)
(* <<"dict", pairs>> with pairs a sequence of <<key, value>> in insertion  *)
(* order.  A variables mapping is a sequence of <<name, value>> pairs in   *)
(* insertion order, the order a Python dict iterates in.                   *)
(***************************************************************************)
EXTENDS Integers, Sequences, FiniteSets, TLC

VARIABLES
    \* template resolution of one piece of raw data
    segs, raw_data, variables_mapping, functions_mapping, parsed, found, t_pc,
    \* parse_variables_mapping, one step per visited variable
    raw_mapping, pvm_functions, parsed_variables, var_idx, pass_progress,
    pvm_calls, pvm_pc, pvm_error,
    \* the stack of session runners, the outermost runner's summary and the
    \* nested runner that returned last
    frames, summary, last_nested,
    \* one call of a function of parser.py: its arguments and, once it has
    \* returned or raised, its outcome
    call_args, call_result

vars == <<segs, raw_data, variables_mapping, functions_mapping, parsed, found,
          t_pc, raw_mapping, pvm_functions, parsed_variables, var_idx,
          pass_progress, pvm_calls, pvm_pc, pvm_error, frames, summary,
          last_nested, call_args, call_result>>

-----------------------------------------------------------------------------
(* Characters and the classes the three regular expressions use.           *)

Letters ==
    {"a","b","c","d","e","f","g","h","i","j","k","l","m","n","o","p","q","r",
     "s","t","u","v","w","x","y","z","A","B","C","D","E","F","G","H","I","J",
     "K","L","M","N","O","P","Q","R","S","T","U","V","W","X","Y","Z"}

Digits == {"0","1","2","3","4","5","6","7","8","9"}

\* [a-zA-Z_]
NameStartChars == Letters \cup {"_"}

\* \w
WordChars == NameStartChars \cup Digits

\* \s
SpaceChars == {" ", "\t", "\n", "\r"}

\* [\$\w\.\-/\s=,]
ParamChars == WordChars \cup SpaceChars \cup {"$", ".", "-", "/", "=", ","}

\* the characters str.strip(" \t") removes
StripChars == {" ", "\t"}

-----------------------------------------------------------------------------
(* Text helpers: Python's str.index, str.strip, str.split and slicing.     *)

At(s, i) == IF i \in 1..Len(s) THEN s[i] ELSE ""

\* s.index(c, from), 1-based; 0 stands for ValueError
IndexFrom(s, c, from) ==
    IF \E i \in from..Len(s) : s[i] = c
    THEN CHOOSE i \in from..Len(s) : s[i] = c /\ \A j \in from..(i-1) : s[j] # c
    ELSE 0

\* the position after the longest run of characters of class cls starting at p
RunEnd(s, p, cls) ==
    CHOOSE e \in p..(Len(s)+1) :
        /\ \A j \in p..(e-1) : s[j] \in cls
        /\ (e = Len(s)+1 \/ s[e] \notin cls)

StripOf(s, cls) ==
    IF \A i \in 1..Len(s) : s[i] \in cls THEN <<>>
    ELSE LET lo == CHOOSE i \in 1..Len(s) :
                       s[i] \notin cls /\ \A j \in 1..(i-1) : s[j] \in cls
             hi == CHOOSE i \in 1..Len(s) :
                       s[i] \notin cls /\ \A j \in (i+1)..Len(s) : s[j] \in cls
         IN SubSeq(s, lo, hi)

RECURSIVE Split(_, _)
Split(s, c) ==
    LET i == IndexFrom(s, c, 1)
    IN IF i = 0 THEN <<s>>
       ELSE <<SubSeq(s, 1, i-1)>> \o Split(SubSeq(s, i+1, Len(s)), c)

Count(s, c) == Cardinality({i \in 1..Len(s) : s[i] = c})

RECURSIVE Concat(_)
Concat(ss) == IF ss = <<>> THEN <<>> ELSE Head(ss) \o Concat(Tail(ss))

-----------------------------------------------------------------------------
(* Values.                                                                 *)

VStr(s) == <<"str", s>>
VInt(n) == <<"int", n>>
VList(xs) == <<"list", xs>>
VDict(ps) == <<"dict", ps>>
Undefined == <<"undef">>

Tag(v) == v[1]
IsStr(v) == Tag(v) = "str"

DigitChar(d) ==
    CASE d = 0 -> "0" [] d = 1 -> "1" [] d = 2 -> "2" [] d = 3 -> "3"
      [] d = 4 -> "4" [] d = 5 -> "5" [] d = 6 -> "6" [] d = 7 -> "7"
      [] d = 8 -> "8" [] d = 9 -> "9"

DigitValue(c) == CHOOSE d \in 0..9 : DigitChar(d) = c

RECURSIVE IntText(_)
IntText(n) ==
    IF n < 0 THEN <<"-">> \o IntText(0 - n)
    ELSE IF n < 10 THEN <<DigitChar(n)>>
    ELSE IntText(n \div 10) \o <<DigitChar(n % 10)>>

RECURSIVE Repr(_), JoinRepr(_), JoinItems(_)
\* repr(v); text here holds no quote and no backslash, so repr adds '...'
Repr(v) ==
    CASE Tag(v) = "str" -> <<"'">> \o v[2] \o <<"'">>
      [] Tag(v) = "int" -> IntText(v[2])
      [] Tag(v) = "list" -> <<"[">> \o JoinRepr(v[2]) \o <<"]">>
      [] Tag(v) = "dict" -> <<"{">> \o JoinItems(v[2]) \o <<"}">>
      [] OTHER -> <<"N","o","n","e">>

JoinRepr(xs) ==
    IF xs = <<>> THEN <<>>
    ELSE IF Len(xs) = 1 THEN Repr(xs[1])
    ELSE Repr(xs[1]) \o <<",", " ">> \o JoinRepr(Tail(xs))

JoinItems(ps) ==
    IF ps = <<>> THEN <<>>
    ELSE LET one == Repr(ps[1][1]) \o <<":", " ">> \o Repr(ps[1][2])
         IN IF Len(ps) = 1 THEN one ELSE one \o <<",", " ">> \o JoinItems(Tail(ps))

\* str(v)
Str(v) == IF IsStr(v) THEN v[2] ELSE Repr(v)

-----------------------------------------------------------------------------
(* Mappings in insertion order.                                            *)

Keys(m) == {m[i][1] : i \in 1..Len(m)}
KeySeq(m) == [i \in 1..Len(m) |-> m[i][1]]
Has(m, k) == \E i \in 1..Len(m) : m[i][1] = k
Get(m, k) == m[CHOOSE i \in 1..Len(m) : m[i][1] = k][2]

\* m[k] = v: an existing key keeps its place
Put(m, k, v) ==
    IF Has(m, k)
    THEN [i \in 1..Len(m) |-> IF m[i][1] = k THEN <<k, v>> ELSE m[i]]
    ELSE Append(m, <<k, v>>)

RECURSIVE Update(_, _)
\* m.update(other)
Update(m, other) ==
    IF other = <<>> THEN m
    ELSE Update(Put(m, other[1][1], other[1][2]), Tail(other))

-----------------------------------------------------------------------------
(* Results of the resolving functions: the outcome ("ok" or the exception  *)
(* raised), the value returned, the functions invoked and the variables    *)
(* looked up, both in the order they happened (they also happened when the *)
(* outcome is an exception).                                               *)

Ok(v, calls, looks) == [st |-> "ok", val |-> v, calls |-> calls, looks |-> looks]

Raise(exc, calls, looks) ==
    [st |-> exc, val |-> Undefined, calls |-> calls, looks |-> looks]

NoMatch == [matched |-> FALSE, name |-> <<>>, params |-> <<>>, end |-> 0]

\* a scanner that never tries the escape
dollar_match_never(s, pos) == FALSE

\* dolloar_regex_compile.match(s, pos): \$\$
dollar_match(s, pos) == At(s, pos) = "$" /\ At(s, pos+1) = "$"

\* variable_regex_compile.match(s, pos): \$\{([a-zA-Z_]\w*)\}|\$([a-zA-Z_]\w*)
variable_match(s, pos) ==
    LET braced == At(s, pos) = "$" /\ At(s, pos+1) = "{"
                      /\ At(s, pos+2) \in NameStartChars
        be == RunEnd(s, pos+3, WordChars)
        e == RunEnd(s, pos+2, WordChars)
    IN IF braced /\ At(s, be) = "}"
       THEN [matched |-> TRUE, name |-> SubSeq(s, pos+2, be-1),
             params |-> <<>>, end |-> be+1]
       ELSE IF At(s, pos) = "$" /\ At(s, pos+1) \in NameStartChars
       THEN [matched |-> TRUE, name |-> SubSeq(s, pos+1, e-1),
             params |-> <<>>, end |-> e]
       ELSE NoMatch

\* function_regex_compile.match(s, pos):
\* \$\{([a-zA-Z_]\w*)\(([\$\w\.\-/\s=,]*)\)\}
function_match(s, pos) ==
    LET opened == At(s, pos) = "$" /\ At(s, pos+1) = "{"
                      /\ At(s, pos+2) \in NameStartChars
        ne == RunEnd(s, pos+3, WordChars)
        pe == RunEnd(s, ne+1, ParamChars)
    IN IF opened /\ At(s, ne) = "(" /\ At(s, pe) = ")" /\ At(s, pe+1) = "}"
       THEN [matched |-> TRUE, name |-> SubSeq(s, pos+2, ne-1),
             params |-> SubSeq(s, ne+1, pe-1), end |-> pe+2]
       ELSE NoMatch

-----------------------------------------------------------------------------
(* parse_string_value: ast.literal_eval, for the literals the parameter    *)
(* text of the model can spell: decimal integers (digits, with single      *)
(* underscores between them).  Any other text stays a string.              *)

IsIntLiteral(s) ==
    /\ Len(s) > 0
    /\ \A i \in 1..Len(s) : s[i] \in Digits \cup {"_"}
    /\ s[1] \in Digits /\ s[Len(s)] \in Digits
    /\ \A i \in 1..(Len(s)-1) : ~(s[i] = "_" /\ s[i+1] = "_")
    /\ (s[1] # "0" \/ \A i \in 1..Len(s) : s[i] \in {"0", "_"})

RECURSIVE IntOf(_, _)
IntOf(s, acc) ==
    IF s = <<>> THEN acc
    ELSE IF Head(s) = "_" THEN IntOf(Tail(s), acc)
    ELSE IntOf(Tail(s), 10 * acc + DigitValue(Head(s)))

parse_string_value(str_value) ==
    IF IsIntLiteral(str_value) THEN VInt(IntOf(str_value, 0)) ELSE VStr(str_value)

RECURSIVE ParamArgs(_, _, _)
\* the loop of parse_function_params over args_list
ParamArgs(args_list, args, kwargs) ==
    IF args_list = <<>> THEN [st |-> "ok", args |-> args, kwargs |-> kwargs]
    ELSE LET arg == StripOf(Head(args_list), SpaceChars)
             eq == IndexFrom(arg, "=", 1)
             key == StripOf(SubSeq(arg, 1, eq-1), SpaceChars)
             value == StripOf(SubSeq(arg, eq+1, Len(arg)), SpaceChars)
         IN IF eq = 0
            THEN ParamArgs(Tail(args_list),
                           Append(args, parse_string_value(arg)), kwargs)
            ELSE IF Count(arg, "=") # 1
            THEN [st |-> "ValueError", args |-> <<>>, kwargs |-> <<>>]
            ELSE ParamArgs(Tail(args_list), args,
                           Put(kwargs, VStr(key), parse_string_value(value)))

parse_function_params(params) ==
    LET params_str == StripOf(params, SpaceChars)
    IN IF params_str = <<>> THEN [st |-> "ok", args |-> <<>>, kwargs |-> <<>>]
       ELSE ParamArgs(Split(params_str, ","), <<>>, <<>>)

-----------------------------------------------------------------------------
(* Variable and function lookup.                                           *)

get_mapping_variable(variable_name, mapping) ==
    IF Has(mapping, variable_name)
    THEN [st |-> "ok", val |-> Get(mapping, variable_name)]
    ELSE [st |-> "VariableNotFound", val |-> Undefined]

TxtParameterize == <<"p","a","r","a","m","e","t","e","r","i","z","e">>
TxtP == <<"P">>
TxtEnviron == <<"e","n","v","i","r","o","n">>
TxtENV == <<"E","N","V">>
TxtMultipartEncoder ==
    <<"m","u","l","t","i","p","a","r","t","_","e","n","c","o","d","e","r">>
TxtMultipartContentType ==
    <<"m","u","l","t","i","p","a","r","t","_","c","o","n","t","e","n","t","_",
      "t","y","p","e">>
TxtGetTimestamp == <<"g","e","t","_","t","i","m","e","s","t","a","m","p">>
TxtLen == <<"l","e","n">>
TxtStr == <<"s","t","r">>
TxtAddOne == <<"a","d","d","_","o","n","e">>
TxtSumTwo == <<"s","u","m","_","t","w","o">>
TxtGenAppVersion ==
    <<"g","e","n","_","a","p","p","_","v","e","r","s","i","o","n">>

\* names loader.load_builtin_functions() returns (httprunner.builtin)
BuiltinFunctionNames == {TxtGetTimestamp}

\* attributes of Python's builtins module
PyBuiltinNames == {TxtLen, TxtStr}

\* a lookup that tries the reserved names before the project's functions
get_mapping_function_aliases_first(function_name, mapping) ==
    IF function_name \in {TxtParameterize, TxtP}
    THEN [st |-> "ok", val |-> <<"loader", "load_csv_file">>]
    ELSE IF function_name \in {TxtEnviron, TxtENV}
    THEN [st |-> "ok", val |-> <<"utils", "get_os_environ">>]
    ELSE IF Has(mapping, function_name)
    THEN [st |-> "ok", val |-> <<"project", Get(mapping, function_name)>>]
    ELSE IF function_name \in {TxtMultipartEncoder, TxtMultipartContentType}
    THEN [st |-> "ok", val |-> <<"uploader", function_name>>]
    ELSE IF function_name \in BuiltinFunctionNames
    THEN [st |-> "ok", val |-> <<"builtin", function_name>>]
    ELSE IF function_name \in PyBuiltinNames
    THEN [st |-> "ok", val |-> <<"builtins", function_name>>]
    ELSE [st |-> "FunctionNotFound", val |-> Undefined]

\* The callable get_mapping_function returns, as <<origin, name>>.
get_mapping_function(function_name, mapping) ==
    IF Has(mapping, function_name)
    THEN [st |-> "ok", val |-> <<"project", Get(mapping, function_name)>>]
    ELSE IF function_name \in {TxtParameterize, TxtP}
    THEN [st |-> "ok", val |-> <<"loader", "load_csv_file">>]
    ELSE IF function_name \in {TxtEnviron, TxtENV}
    THEN [st |-> "ok", val |-> <<"utils", "get_os_environ">>]
    ELSE IF function_name \in {TxtMultipartEncoder, TxtMultipartContentType}
    THEN [st |-> "ok", val |-> <<"uploader", function_name>>]
    ELSE IF function_name \in BuiltinFunctionNames
    THEN [st |-> "ok", val |-> <<"builtin", function_name>>]
    ELSE IF function_name \in PyBuiltinNames
    THEN [st |-> "ok", val |-> <<"builtins", function_name>>]
    ELSE [st |-> "FunctionNotFound", val |-> Undefined]

\* The one argument of a one-parameter function named x, or Undefined.
OneArg(args, kwargs) ==
    IF Len(args) = 1 /\ kwargs = <<>> THEN args[1]
    ELSE IF args = <<>> /\ Len(kwargs) = 1 /\ kwargs[1][1] = VStr(<<"x">>)
    THEN kwargs[1][2]
    ELSE Undefined

\* func(*parsed_args, **parsed_kwargs).  Project functions are the ones the
\* docstrings use: add_one = lambda x: x + 1, sum_two(a, b) = a + b,
\* gen_app_version() = ["2.8.5", "2.8.6"], get_account() = a list of
\* (username, password) pairs, and get_users() = a list of dicts.  The helpers that read the
\* environment run in an empty one: no CSV file, no environment variable.
Apply(func, args, kwargs) ==
    LET x == OneArg(args, kwargs)
    IN CASE func = <<"project", "add_one">> ->
              IF Tag(x) = "int" THEN [st |-> "ok", val |-> VInt(x[2] + 1)]
              ELSE [st |-> "TypeError", val |-> Undefined]
         [] func = <<"project", "sum_two">> ->
              IF Len(args) = 2 /\ kwargs = <<>> /\ Tag(args[1]) = "int"
                 /\ Tag(args[2]) = "int"
              THEN [st |-> "ok", val |-> VInt(args[1][2] + args[2][2])]
              ELSE IF Len(args) = 2 /\ kwargs = <<>> /\ Tag(args[1]) = "str"
                 /\ Tag(args[2]) = "str"
              THEN [st |-> "ok", val |-> VStr(args[1][2] \o args[2][2])]
              ELSE [st |-> "TypeError", val |-> Undefined]
         [] func = <<"project", "gen_app_version">> ->
              IF args = <<>> /\ kwargs = <<>>
              THEN [st |-> "ok",
                    val |-> VList(<<VStr(<<"2",".","8",".","5">>),
                                    VStr(<<"2",".","8",".","6">>)>>)]
              ELSE [st |-> "TypeError", val |-> Undefined]
         [] func = <<"project", "get_account">> ->
              IF args = <<>> /\ kwargs = <<>>
              THEN [st |-> "ok",
                    val |-> VList(<<VList(<<VStr(<<"u","1">>), VStr(<<"p","1">>)>>),
                                    VList(<<VStr(<<"u","2">>), VStr(<<"p","2">>)>>)>>)]
              ELSE [st |-> "TypeError", val |-> Undefined]
         [] func = <<"project", "get_users">> ->
              IF args = <<>> /\ kwargs = <<>>
              THEN [st |-> "ok",
                    val |-> VList(<<VDict(<< <<VStr(<<"u">>), VStr(<<"u","1">>)>>,
                                            <<VStr(<<"p">>), VStr(<<"p","1">>)>> >>)>>)]
              ELSE [st |-> "TypeError", val |-> Undefined]
         [] func = <<"builtins", TxtLen>> ->
              IF Len(args) = 1 /\ kwargs = <<>>
                 /\ Tag(args[1]) \in {"str", "list", "dict"}
              THEN [st |-> "ok", val |-> VInt(Len(args[1][2]))]
              ELSE [st |-> "TypeError", val |-> Undefined]
         [] func = <<"builtins", TxtStr>> ->
              IF Len(args) = 1 /\ kwargs = <<>>
              THEN [st |-> "ok", val |-> VStr(Str(args[1]))]
              ELSE [st |-> "TypeError", val |-> Undefined]
         [] func = <<"loader", "load_csv_file">> ->
              [st |-> IF Len(args) = 1 /\ kwargs = <<>> THEN "CSVNotFound"
                      ELSE "TypeError", val |-> Undefined]
         [] func = <<"utils", "get_os_environ">> ->
              [st |-> IF Len(args) = 1 /\ kwargs = <<>> THEN "EnvNotFound"
                      ELSE "TypeError", val |-> Undefined]
         [] OTHER -> [st |-> "TypeError", val |-> Undefined]

-----------------------------------------------------------------------------
(* parse_string and parse_data.                                            *)

\* a parse_data that does not strip
strip_raw_data_kept(s) == s

\* raw_string.strip(" \t") of parse_data
strip_raw_data(s) == StripOf(s, StripChars)

\* startswith in place of ==
is_whole_variable_prefix(var_name, raw_string) ==
    SubSeq(raw_string, 1, Len(var_name) + 1) = <<"$">> \o var_name

\* f"${var_name}" == raw_string or "${" + var_name + "}" == raw_string
is_whole_variable(var_name, raw_string) ==
    \/ <<"$">> \o var_name = raw_string
    \/ <<"$", "{">> \o var_name \o <<"}">> = raw_string

\* a parse_string that always concatenates a function's result
is_whole_function_never(func_name, func_params_str, raw_string) == FALSE

\* func_raw_str == raw_string
is_whole_function(func_name, func_params_str, raw_string) ==
    <<"$", "{">> \o func_name \o <<"(">> \o func_params_str \o <<")", "}">>
        = raw_string

\* a copy that leaves out the character at curr
remain_string_after_curr(raw_string, curr) ==
    LET next == IndexFrom(raw_string, "$", curr + 1)
    IN IF next = 0 THEN SubSeq(raw_string, curr + 1, Len(raw_string))
       ELSE SubSeq(raw_string, curr + 1, next - 1)

\* The text copied when no notation matches at curr: up to the next "$".
remain_string(raw_string, curr) ==
    LET next == IndexFrom(raw_string, "$", curr + 1)
    IN IF next = 0 THEN SubSeq(raw_string, curr, Len(raw_string))
       ELSE SubSeq(raw_string, curr, next - 1)

next_position(raw_string, curr) ==
    LET next == IndexFrom(raw_string, "$", curr + 1)
    IN IF next = 0 THEN Len(raw_string) + 1 ELSE next

RECURSIVE parse_data(_, _, _), ScanString(_, _, _, _, _, _, _),
          ParseItems(_, _, _, _, _, _), ParsePairs(_, _, _, _, _, _)

\* The while loop of parse_string from match_start_position = pos.
ScanString(raw_string, pos, parsed_string, mapping, functions, calls, looks) ==
    IF pos > Len(raw_string) THEN Ok(VStr(parsed_string), calls, looks)
    ELSE IF dollar_match(raw_string, pos)
    THEN ScanString(raw_string, pos + 2, parsed_string \o <<"$">>, mapping,
                    functions, calls, looks)
    ELSE
    LET func_match == function_match(raw_string, pos)
        var_match == variable_match(raw_string, pos)
    IN IF func_match.matched
       THEN LET func == get_mapping_function(func_match.name, functions)
                meta == parse_function_params(func_match.params)
                pa == parse_data(VList(meta.args), mapping, functions)
                pk == parse_data(VDict(meta.kwargs), mapping, functions)
                calls_a == calls \o pa.calls
                looks_a == looks \o pa.looks
                calls_k == calls_a \o pk.calls
                looks_k == looks_a \o pk.looks
                ev == Apply(func.val, pa.val[2], pk.val[2])
                called == Append(calls_k, func_match.name)
            IN IF func.st # "ok" THEN Raise(func.st, calls, looks)
               ELSE IF meta.st # "ok" THEN Raise(meta.st, calls, looks)
               ELSE IF pa.st # "ok" THEN Raise(pa.st, calls_a, looks_a)
               ELSE IF pk.st # "ok" THEN Raise(pk.st, calls_k, looks_k)
               ELSE IF \E i \in 1..Len(pk.val[2]) : ~IsStr(pk.val[2][i][1])
               THEN Raise("TypeError", calls_k, looks_k)
               ELSE IF ev.st # "ok" THEN Raise(ev.st, called, looks_k)
               ELSE IF is_whole_function(func_match.name, func_match.params,
                                         raw_string)
               THEN Ok(ev.val, called, looks_k)
               ELSE ScanString(raw_string, func_match.end,
                               parsed_string \o Str(ev.val), mapping,
                               functions, called, looks_k)
       ELSE IF var_match.matched
       THEN LET got == get_mapping_variable(var_match.name, mapping)
                looked == Append(looks, var_match.name)
            IN IF got.st # "ok" THEN Raise(got.st, calls, looked)
               ELSE IF is_whole_variable(var_match.name, raw_string)
               THEN Ok(got.val, calls, looked)
               ELSE ScanString(raw_string, var_match.end,
                               parsed_string \o Str(got.val), mapping,
                               functions, calls, looked)
       ELSE ScanString(raw_string, next_position(raw_string, pos),
                       parsed_string \o remain_string(raw_string, pos),
                       mapping, functions, calls, looks)

parse_string(raw_string, mapping, functions) ==
    LET first == IndexFrom(raw_string, "$", 1)
    IN IF first = 0 THEN Ok(VStr(raw_string), <<>>, <<>>)
       ELSE ScanString(raw_string, first, SubSeq(raw_string, 1, first - 1),
                       mapping, functions, <<>>, <<>>)

\* [parse_data(item, ...) for item in raw_data]
ParseItems(items, acc, mapping, functions, calls, looks) ==
    IF items = <<>> THEN Ok(VList(acc), calls, looks)
    ELSE LET r == parse_data(Head(items), mapping, functions)
         IN IF r.st # "ok" THEN Raise(r.st, calls \o r.calls, looks \o r.looks)
            ELSE ParseItems(Tail(items), Append(acc, r.val), mapping, functions,
                            calls \o r.calls, looks \o r.looks)

\* for key, value in raw_data.items(): parsed_data[parsed_key] = parsed_value
ParsePairs(pairs, acc, mapping, functions, calls, looks) ==
    IF pairs = <<>> THEN Ok(VDict(acc), calls, looks)
    ELSE LET k == parse_data(Head(pairs)[1], mapping, functions)
             v == parse_data(Head(pairs)[2], mapping, functions)
             calls_k == calls \o k.calls
             looks_k == looks \o k.looks
         IN IF k.st # "ok" THEN Raise(k.st, calls_k, looks_k)
            ELSE IF v.st # "ok"
            THEN Raise(v.st, calls_k \o v.calls, looks_k \o v.looks)
            ELSE IF Tag(k.val) \in {"list", "dict"}
            THEN Raise("TypeError", calls_k \o v.calls, looks_k \o v.looks)
            ELSE ParsePairs(Tail(pairs), Put(acc, k.val, v.val), mapping,
                            functions, calls_k \o v.calls, looks_k \o v.looks)

parse_data(raw, mapping, functions) ==
    CASE Tag(raw) = "str" ->
           parse_string(strip_raw_data(raw[2]), mapping, functions)
      [] Tag(raw) = "list" ->
           ParseItems(raw[2], <<>>, mapping, functions, <<>>, <<>>)
      [] Tag(raw) = "dict" ->
           ParsePairs(raw[2], <<>>, mapping, functions, <<>>, <<>>)
      [] OTHER -> Ok(raw, <<>>, <<>>)

-----------------------------------------------------------------------------
(* regex_findall_variables and extract_variables.                          *)

RECURSIVE FindVariables(_, _, _)
\* The while loop of regex_findall_variables from match_start_position = pos.
FindVariables(raw_string, pos, vars_list) ==
    IF pos > Len(raw_string) THEN vars_list
    ELSE IF dollar_match(raw_string, pos)
    THEN FindVariables(raw_string, pos + 2, vars_list)
    ELSE LET var_match == variable_match(raw_string, pos)
             next == IndexFrom(raw_string, "$", pos + 1)
         IN IF var_match.matched
            THEN FindVariables(raw_string, var_match.end,
                               Append(vars_list, var_match.name))
            ELSE IF next = 0 THEN vars_list
            ELSE FindVariables(raw_string, next, vars_list)

regex_findall_variables(raw_string) ==
    LET first == IndexFrom(raw_string, "$", 1)
    IN IF first = 0 THEN <<>> ELSE FindVariables(raw_string, first, <<>>)

RECURSIVE extract_variables(_)
extract_variables(content) ==
    CASE Tag(content) = "list" ->
           UNION {extract_variables(content[2][i]) : i \in 1..Len(content[2])}
      [] Tag(content) = "dict" ->
           UNION {extract_variables(content[2][i][2]) : i \in 1..Len(content[2])}
      [] Tag(content) = "str" ->
           LET found_list == regex_findall_variables(content[2])
           IN {found_list[i] : i \in 1..Len(found_list)}
      [] OTHER -> {}

-----------------------------------------------------------------------------
(* Inputs of the template resolution: a raw string is a sequence of at     *)
(* most MaxSegs segments, each a literal run, the escape, a variable       *)
(* reference, a function call, or a lone "$".                              *)

MaxSegs == 3

Seg(kind, text, name, args) ==
    [kind |-> kind, text |-> text, name |-> name, args |-> args]

Tokens ==
    << Seg("lit", <<"n">>, <<>>, <<>>),
       Seg("lit", <<" ">>, <<>>, <<>>),
       Seg("lit", <<"\t">>, <<>>, <<>>),
       Seg("lit", <<"v","a","l","=">>, <<>>, <<>>),
       Seg("esc", <<"$","$">>, <<>>, <<>>),
       Seg("var", <<"$","n">>, <<"n">>, <<>>),
       Seg("var", <<"$","{","n","}">>, <<"n">>, <<>>),
       Seg("var", <<"$","l">>, <<"l">>, <<>>),
       Seg("func", <<"$","{","a","d","d","_","o","n","e","(","$","n",")","}">>,
           TxtAddOne, <<<<"n">>>>),
       Seg("func", <<"$","{","g","e","n","_","a","p","p","_","v","e","r","s",
                     "i","o","n","(",")","}">>, TxtGenAppVersion, <<>>),
       Seg("func", <<"$","{","n","o","f","u","n","c","(",")","}">>,
           <<"n","o","f","u","n","c">>, <<>>),
       Seg("raw", <<"$">>, <<>>, <<>>) >>

SegSeqs == UNION {[1..k -> 1..Len(Tokens)] : k \in 1..MaxSegs}

Render(ss) == Concat([i \in 1..Len(ss) |-> Tokens[ss[i]].text])

\* the variables and functions mappings a resolution may be given
SomeVariables ==
    { <<>>,
      << <<<<"n">>, VInt(3)>>,
         <<<<"l">>, VList(<<VInt(1), VStr(<<"x">>)>>)>> >> }

ProjectFunctions ==
    << <<TxtAddOne, "add_one">>, <<TxtSumTwo, "sum_two">>,
       <<TxtGenAppVersion, "gen_app_version">> >>

SomeFunctions == { <<>>, ProjectFunctions }

NotRun == [st |-> "none", val |-> Undefined, calls |-> <<>>, looks |-> <<>>]

\* get_summary has not been called
NoSummary == <<>>

\* no referenced test case has returned
NoNested == <<>>

RunIdle == frames = <<>> /\ summary = NoSummary /\ last_nested = NoNested

RunVars == <<frames, summary, last_nested>>

\* no function is called on its own
NoCall == <<>>

CallIdle == call_args = NoCall /\ call_result = NoCall

CallVars == <<call_args, call_result>>

PvmIdle ==
    /\ raw_mapping = <<>> /\ pvm_functions = <<>> /\ parsed_variables = <<>>
    /\ var_idx = 0 /\ pass_progress = FALSE /\ pvm_calls = <<>>
    /\ pvm_pc = "idle" /\ pvm_error = "none"

PvmVars ==
    <<raw_mapping, pvm_functions, parsed_variables, var_idx, pass_progress,
      pvm_calls, pvm_pc, pvm_error>>

TemplateVars ==
    <<segs, raw_data, variables_mapping, functions_mapping, parsed, found, t_pc>>

TemplateInit ==
    /\ segs \in SegSeqs
    /\ raw_data = VStr(Render(segs))
    /\ variables_mapping \in SomeVariables
    /\ functions_mapping \in SomeFunctions
    /\ parsed = NotRun
    /\ found = {}
    /\ t_pc = "input"
    /\ PvmIdle
    /\ RunIdle
    /\ CallIdle

\* parse_data(raw_data, variables_mapping, functions_mapping)
Resolve ==
    /\ t_pc = "input"
    /\ parsed' = parse_data(raw_data, variables_mapping, functions_mapping)
    /\ t_pc' = "resolved"
    /\ UNCHANGED <<segs, raw_data, variables_mapping, functions_mapping, found>>
    /\ UNCHANGED PvmVars
    /\ UNCHANGED RunVars
    /\ UNCHANGED CallVars

\* extract_variables(raw_data)
Extract ==
    /\ t_pc = "resolved"
    /\ found' = extract_variables(raw_data)
    /\ t_pc' = "extracted"
    /\ UNCHANGED <<segs, raw_data, variables_mapping, functions_mapping, parsed>>
    /\ UNCHANGED PvmVars
    /\ UNCHANGED RunVars
    /\ UNCHANGED CallVars

TemplateNext == Resolve \/ Extract

SpecTemplate == TemplateInit /\ [][TemplateNext]_vars

-----------------------------------------------------------------------------
(* parse_variables_mapping, one action per evaluation of the while          *)
(* condition and per iteration of the for loop.                            *)

MaxVars == 2
MaxCalls == 2

NameA == <<"a">>
NameB == <<"b">>
NameC == <<"c">>
NameD == <<"d">>
NamePool == <<NameA, NameB, NameC, NameD>>

\* the names a raw mapping may use as keys
KeyNames == {NamePool[i] : i \in 1..MaxVars}

\* The raw values a variable may have, each with the names it references in
\* strings, list items and mapping values (refs) and in mapping keys (krefs).
Tpl(val, refs, krefs) == [val |-> val, refs |-> refs, krefs |-> krefs]

ValueTemplates ==
    { Tpl(VStr(<<"1">>), {}, {}),
      Tpl(VInt(3), {}, {}),
      Tpl(VStr(<<"$", "a">>), {NameA}, {}),
      Tpl(VStr(<<"$", "b">>), {NameB}, {}),
      Tpl(VStr(<<"$", "c">>), {NameC}, {}),
      Tpl(VStr(<<"x", "$", "{", "a", "}">>), {NameA}, {}),
      Tpl(VStr(<<"$","{","a","d","d","_","o","n","e","(","$","b",")","}">>),
          {NameB}, {}),
      Tpl(VList(<<VStr(<<"$", "a">>)>>), {NameA}, {}),
      Tpl(VDict(<< <<VStr(<<"k">>), VStr(<<"$", "b">>)>> >>), {NameB}, {}),
      Tpl(VDict(<< <<VStr(<<"$", "a">>), VInt(1)>> >>), {}, {NameA}),
      Tpl(VStr(<<"$", "$", "a">>), {}, {}),
      Tpl(VStr(<<"$","{","n","o","f","u","n","c","(",")","}">>), {}, {}),
      Tpl(VStr(<<"$","{","a","d","d","_","o","n","e","(","1",")","}","$","b">>),
          {NameB}, {}) }

RawValues == {t.val : t \in ValueTemplates}

\* the sequences of k distinct key names, for k up to MaxVars
KeyOrders ==
    UNION {{ks \in [1..k -> KeyNames] :
               \A i, j \in 1..k : ks[i] = ks[j] => i = j} : k \in 1..MaxVars}

RawMappings ==
    UNION {{[i \in 1..Len(ks) |-> <<ks[i], vs[i]>>] :
               vs \in [1..Len(ks) -> RawValues]} : ks \in KeyOrders}

\* a loop body that never sees a variable naming itself
references_itself_never(var_name, variables) == FALSE

\* var_name in variables
references_itself(var_name, variables) == var_name \in variables

\* [v_name for v_name in variables if v_name not in variables_mapping]
not_defined_variables(variables, mapping) ==
    {v \in variables : ~Has(mapping, v)}

\* a loop body that resolves against the raw values
resolution_scope_raw(mapping, resolved) == mapping

\* the mapping parse_data resolves a variable's value with
resolution_scope(mapping, resolved) == resolved

\* What the body of the for loop does for the variable var_name, given the
\* names extract_variables found in its value and the outcome r of parse_data
\* on it: "skip" an already parsed name, "raise", "retry" later after
\* VariableNotFound, or "set" the parsed value; with the number of functions
\* invoked.
visit_outcome(var_name, mapping, resolved, variables, r) ==
    IF Has(resolved, var_name)
    THEN [kind |-> "skip", exc |-> "none", val |-> Undefined, ncalls |-> 0]
    ELSE IF references_itself(var_name, variables)
    THEN [kind |-> "raise", exc |-> "VariableNotFound", val |-> Undefined,
          ncalls |-> 0]
    ELSE IF not_defined_variables(variables, mapping) # {}
    THEN [kind |-> "raise", exc |-> "VariableNotFound", val |-> Undefined,
          ncalls |-> 0]
    ELSE IF r.st = "VariableNotFound"
    THEN [kind |-> "retry", exc |-> "none", val |-> Undefined,
          ncalls |-> Len(r.calls)]
    ELSE IF r.st # "ok"
    THEN [kind |-> "raise", exc |-> r.st, val |-> Undefined,
          ncalls |-> Len(r.calls)]
    ELSE [kind |-> "set", exc |-> "none", val |-> r.val,
          ncalls |-> Len(r.calls)]

\* the body of the for loop for the variable at position i
visit_variable(mapping, resolved, i, functions) ==
    visit_outcome(mapping[i][1], mapping, resolved,
                  extract_variables(mapping[i][2]),
                  parse_data(mapping[i][2],
                             resolution_scope(mapping, resolved), functions))

Min(x, y) == IF x < y THEN x ELSE y

TemplateIdle ==
    /\ segs = <<>> /\ raw_data = Undefined /\ variables_mapping = <<>>
    /\ functions_mapping = <<>> /\ parsed = NotRun /\ found = {}
    /\ t_pc = "idle"

PvmInit ==
    /\ raw_mapping \in RawMappings
    /\ pvm_functions = ProjectFunctions
    /\ parsed_variables = <<>>
    /\ var_idx = 0
    /\ pass_progress = FALSE
    /\ pvm_calls = [n \in Keys(raw_mapping) |-> 0]
    /\ pvm_pc = "while"
    /\ pvm_error = "none"
    /\ TemplateIdle
    /\ RunIdle
    /\ CallIdle

\* while len(parsed_variables) != len(variables_mapping): start a pass
PvmStartPass ==
    /\ pvm_pc = "while"
    /\ Len(parsed_variables) # Len(raw_mapping)
    /\ pvm_pc' = "for"
    /\ var_idx' = 1
    /\ pass_progress' = FALSE
    /\ UNCHANGED <<raw_mapping, pvm_functions, parsed_variables, pvm_calls,
                   pvm_error>>
    /\ UNCHANGED TemplateVars
    /\ UNCHANGED RunVars
    /\ UNCHANGED CallVars

\* return parsed_variables
PvmReturn ==
    /\ pvm_pc = "while"
    /\ Len(parsed_variables) = Len(raw_mapping)
    /\ pvm_pc' = "returned"
    /\ UNCHANGED <<raw_mapping, pvm_functions, parsed_variables, var_idx,
                   pass_progress, pvm_calls, pvm_error>>
    /\ UNCHANGED TemplateVars
    /\ UNCHANGED RunVars
    /\ UNCHANGED CallVars

\* the effect of one iteration with outcome v on the variable var_name
PvmApply(var_name, v) ==
    /\ pvm_calls' = [pvm_calls EXCEPT ![var_name] = Min(MaxCalls, @ + v.ncalls)]
    /\ \/ /\ v.kind \in {"skip", "retry"}
          /\ var_idx' = var_idx + 1
          /\ UNCHANGED <<parsed_variables, pass_progress, pvm_pc, pvm_error>>
       \/ /\ v.kind = "set"
          /\ parsed_variables' = Put(parsed_variables, var_name, v.val)
          /\ pass_progress' = TRUE
          /\ var_idx' = var_idx + 1
          /\ UNCHANGED <<pvm_pc, pvm_error>>
       \/ /\ v.kind = "raise"
          /\ pvm_pc' = "raised"
          /\ pvm_error' = v.exc
          /\ UNCHANGED <<parsed_variables, pass_progress, var_idx>>

\* one iteration of for var_name in variables_mapping
PvmVisit ==
    /\ pvm_pc = "for"
    /\ var_idx \in 1..Len(raw_mapping)
    /\ PvmApply(raw_mapping[var_idx][1],
                visit_variable(raw_mapping, parsed_variables, var_idx,
                               pvm_functions))
    /\ UNCHANGED <<raw_mapping, pvm_functions>>
    /\ UNCHANGED TemplateVars
    /\ UNCHANGED RunVars
    /\ UNCHANGED CallVars

\* the for loop is exhausted: back to the while condition
PvmEndPass ==
    /\ pvm_pc = "for"
    /\ var_idx = Len(raw_mapping) + 1
    /\ pvm_pc' = "while"
    /\ UNCHANGED <<raw_mapping, pvm_functions, parsed_variables, var_idx,
                   pass_progress, pvm_calls, pvm_error>>
    /\ UNCHANGED TemplateVars
    /\ UNCHANGED RunVars
    /\ UNCHANGED CallVars

PvmNext == PvmStartPass \/ PvmReturn \/ PvmVisit \/ PvmEndPass

SpecVars == PvmInit /\ [][PvmNext]_vars

\* parse_variables_mapping as a function of its arguments: the mapping it
\* returns or the exception it raises; "NoReturn" when a pass resolved nothing
\* and raised nothing, after which every further pass does the same.
RECURSIVE PvmLoop(_, _, _, _, _), PvmLoopStep(_, _, _, _, _, _)

PvmLoop(mapping, resolved, i, progress, functions) ==
    IF i <= Len(mapping)
    THEN PvmLoopStep(mapping, resolved, i, progress, functions,
                     visit_variable(mapping, resolved, i, functions))
    ELSE IF Len(resolved) = Len(mapping) THEN [st |-> "ok", val |-> resolved]
    ELSE IF ~progress THEN [st |-> "NoReturn", val |-> <<>>]
    ELSE PvmLoop(mapping, resolved, 1, FALSE, functions)

PvmLoopStep(mapping, resolved, i, progress, functions, v) ==
    IF v.kind = "raise" THEN [st |-> v.exc, val |-> <<>>]
    ELSE IF v.kind = "set"
    THEN PvmLoop(mapping, Put(resolved, mapping[i][1], v.val), i + 1, TRUE,
                 functions)
    ELSE PvmLoop(mapping, resolved, i + 1, progress, functions)

parse_variables_mapping(mapping, functions) ==
    IF Len(mapping) = 0 THEN [st |-> "ok", val |-> <<>>]
    ELSE PvmLoop(mapping, <<>>, 1, FALSE, functions)

-----------------------------------------------------------------------------
(* The references of a raw mapping, read off the values as written.        *)

TplOf(value) == CHOOSE t \in ValueTemplates : t.val = value
ValueRefs(m, n) == TplOf(Get(m, n)).refs
KeyRefs(m, n) == TplOf(Get(m, n)).krefs
AllRefs(m, n) == ValueRefs(m, n) \cup KeyRefs(m, n)

RECURSIVE Reach(_, _, _)
\* the names reached from the set S of names in at most k references
Reach(m, S, k) ==
    IF k = 0 THEN S
    ELSE Reach(m, S \cup UNION {AllRefs(m, n) : n \in S \cap Keys(m)}, k - 1)

\* the names n refers to, directly or through other variables
ReachedFrom(m, n) == Reach(m, AllRefs(m, n), Len(m))

Cyclic(m) == \E n \in Keys(m) : n \in ReachedFrom(m, n)
MutuallyCyclic(m) ==
    \E n \in Keys(m) : n \in ReachedFrom(m, n) /\ n \notin AllRefs(m, n)
RefsOnlyKeys(m) == \A n \in Keys(m) : AllRefs(m, n) \subseteq Keys(m)

\* positions of the variables whose value names the variable itself, in a
\* string, a list item or a mapping value
SelfRefPositions(m) == {i \in 1..Len(m) : m[i][1] \in ValueRefs(m, m[i][1])}
FirstSelfRef(m) ==
    CHOOSE i \in SelfRefPositions(m) : \A j \in SelfRefPositions(m) : i <= j

AsSet(m) == {m[i] : i \in 1..Len(m)}

\* the orderings of the keys of m
Orderings(m) ==
    {[i \in 1..Len(m) |-> m[f[i]]] :
        f \in {g \in [1..Len(m) -> 1..Len(m)] :
                  \A i, j \in 1..Len(m) : g[i] = g[j] => i = j}}

RECURSIVE Den(_, _, _, _)
\* The value variable n stands for: its raw value with every reference
\* replaced by what the referenced variable stands for (depth bounds the
\* length of the chain of references).
Den(m, n, functions, depth) ==
    IF depth = 0 THEN Raise("Cycle", <<>>, <<>>)
    ELSE LET deps == AllRefs(m, n) \cap Keys(m)
             idx == SelectSeq([i \in 1..Len(m) |-> i],
                              LAMBDA i : m[i][1] \in deps)
             scope == [k \in 1..Len(idx) |->
                          <<m[idx[k]][1],
                            Den(m, m[idx[k]][1], functions, depth - 1).val>>]
         IN IF \E d \in deps : Den(m, d, functions, depth - 1).st # "ok"
            THEN Raise("Dependency", <<>>, <<>>)
            ELSE parse_data(Get(m, n), scope, functions)

Denotes(m, functions) ==
    {<<n, Den(m, n, functions, Len(m)).val>> : n \in Keys(m)}
AllDenote(m, functions) ==
    \A n \in Keys(m) : Den(m, n, functions, Len(m)).st = "ok"

\* a pass has just ended having resolved nothing
FruitlessPass == pvm_pc = "while" /\ var_idx > 0 /\ ~pass_progress

\* C1: a mapping whose variables reference each other in a cycle ends with an
\* error: a pass that resolved nothing is never followed by another pass.
C1_CycleEndsWithError ==
    [][(MutuallyCyclic(raw_mapping) /\ FruitlessPass) => pvm_pc' # "for"]_vars

\* C2: for a mapping whose references name only its keys and form no cycle,
\* parse_variables_mapping raises nothing, resolves a variable in every pass
\* and returns, for every ordering of the keys, the mapping in which each
\* variable is its raw value with the references replaced by the values the
\* referenced variables resolve to.
C2_Pre ==
    /\ RefsOnlyKeys(raw_mapping)
    /\ ~Cyclic(raw_mapping)
    /\ AllDenote(raw_mapping, pvm_functions)

SelfRef == SelfRefPositions(raw_mapping) # {}

\* C3 as stated: a mapping with a variable whose value names the variable
\* itself fails with VariableNotFound and returns nothing.
C3_SelfReferenceIsVariableNotFound ==
    SelfRef =>
      /\ pvm_pc # "returned"
      /\ var_idx <= FirstSelfRef(raw_mapping)
      /\ pvm_pc = "raised" => pvm_error = "VariableNotFound"

\* C3: a mapping with a variable whose value names the variable itself never
\* returns a mapping and fails no later than at that variable in the first
\* pass: with VariableNotFound, or with the error that an earlier variable of
\* the mapping raised.
C3_SelfReferenceFails ==
    SelfRef =>
      /\ pvm_pc # "returned"
      /\ var_idx <= FirstSelfRef(raw_mapping)
      /\ pvm_pc = "raised" =>
           \/ pvm_error = "VariableNotFound"
           \/ var_idx < FirstSelfRef(raw_mapping)

\* the self reference sits inside a list, after a variable that resolved
C3_Witness ==
    /\ pvm_pc = "raised"
    /\ pvm_error = "VariableNotFound"
    /\ raw_mapping = << <<NameB, VInt(3)>>,
                        <<NameA, VList(<<VStr(<<"$", "a">>)>>)>> >>
    /\ var_idx = 2

-----------------------------------------------------------------------------
(* Test cases: a configuration and a list of steps.                        *)

MaxSteps == 2
MaxRetry == 2
RetryInterval == 3

TxtToken == <<"t","o","k","e","n">>
TxtX == <<"x">>
TxtBearerToken == <<"B","e","a","r","e","r"," ","$","t","o","k","e","n">>
TxtBearerAbc == <<"B","e","a","r","e","r"," ","a","b","c">>

\* TConfig
TConfig(name, variables, export) ==
    [name |-> name, base_url |-> VStr(<<>>), variables |-> variables,
     export |-> export]

\* TestCase
TestCase(config, teststeps) == [config |-> config, teststeps |-> teststeps]

NoCase == TestCase(TConfig(VStr(<<>>), <<>>, <<>>), <<>>)

\* TStep of a request: body is the request template, extract the variables
\* the response yields
Request(name, variables, body, extract, retry_times, retry_interval) ==
    [name |-> name, kind |-> "request", variables |-> variables,
     body |-> body, extract |-> extract, setup_hooks |-> <<>>,
     teardown_hooks |-> <<>>, export |-> <<>>, retry_times |-> retry_times,
     retry_interval |-> retry_interval, testcase |-> NoCase]

\* TStep of a referenced test case
RunTestCase(name, variables, setup, teardown, export, retry_times, testcase) ==
    [name |-> name, kind |-> "testcase", variables |-> variables,
     body |-> Undefined, extract |-> <<>>, setup_hooks |-> setup,
     teardown_hooks |-> teardown, export |-> export,
     retry_times |-> retry_times, retry_interval |-> RetryInterval,
     testcase |-> testcase]

StepLogin ==
    Request("login", <<>>, VStr(<<"l","o","g","i","n">>), << <<TxtToken, VStr(<<"a","b","c">>)>> >>, 0, 0)

StepRelogin ==
    Request("relogin", <<>>, VStr(<<"l","o","g","i","n">>), << <<TxtToken, VStr(<<"d","e","f">>)>> >>,
            MaxRetry, RetryInterval)

StepUse ==
    Request("use", <<>>, VStr(TxtBearerToken), <<>>, 1, 0)

StepShadow ==
    Request("shadow", << <<TxtToken, VStr(<<"l","o","c">>)>> >>, VStr(TxtBearerToken),
            <<>>, 0, 0)

StepLocal ==
    Request("local", << <<TxtX, VStr(<<"$","t","o","k","e","n">>)>> >>, VStr(<<"$","x">>), <<>>, 0, 0)

CaseLogin ==
    TestCase(TConfig(VStr(<<"l","o","g","i","n">>), <<>>, <<TxtToken>>), <<StepLogin>>)

CaseUse ==
    TestCase(TConfig(VStr(<<"u","s","e">>), << <<TxtX, VStr(<<"o","w","n">>)>> >>, <<>>),
             <<StepUse>>)

StepRefLogin == RunTestCase("ref_login", <<>>, <<>>, <<>>, <<>>, 0, CaseLogin)

StepRefMissing ==
    RunTestCase("ref_missing", <<>>, <<>>, <<>>, <<TxtX>>, 1, CaseLogin)

StepRefLocal ==
    RunTestCase("ref_local", << <<TxtX, VStr(<<"1">>)>> >>, <<>>, <<VStr(<<"$","x">>)>>,
                <<TxtX>>, 0, CaseLogin)

StepRefUse ==
    RunTestCase("ref_use", <<>>, <<VStr(<<"$","t","o","k","e","n">>)>>, <<>>, <<>>, 1, CaseUse)

CaseOuter ==
    TestCase(TConfig(VStr(<<"o","u","t","e","r">>), <<>>, <<TxtToken>>), <<StepRefLogin>>)

StepRefOuter == RunTestCase("ref_outer", <<>>, <<>>, <<>>, <<>>, 0, CaseOuter)

\* a test case whose config variables name an undefined variable
CaseBad ==
    TestCase(TConfig(VStr(<<"b","a","d">>),
                     << <<TxtX, VStr(<<"$","u">>)>> >>, <<>>),
             <<StepLogin>>)

StepRefBad == RunTestCase("ref_bad", <<>>, <<>>, <<>>, <<>>, 1, CaseBad)

\* a step with a variable of its own that it does not export
StepRefOwn ==
    RunTestCase("ref_own", << <<<<"y">>, VStr(<<"1">>)>> >>, <<>>, <<>>, <<>>,
                0, CaseLogin)

\* a step whose setup hook and teardown hook are the same expression
StepRefTeardown ==
    RunTestCase("ref_teardown", <<>>, <<VStr(<<"$","t","o","k","e","n">>)>>,
                <<VStr(<<"$","t","o","k","e","n">>)>>, <<>>, 0, CaseUse)

StepPool ==
    <<StepLogin, StepRelogin, StepUse, StepShadow, StepLocal, StepRefLogin,
      StepRefMissing, StepRefLocal, StepRefUse, StepRefOuter, StepRefBad,
      StepRefTeardown, StepRefOwn>>

ConfigPool ==
    <<TConfig(VStr(<<"c","a","s","e">>), <<>>, <<>>),
      TConfig(VStr(<<"c","a","s","e"," ","$","t","o","k","e","n">>), << <<TxtToken, VStr(<<"c","f","g">>)>> >>,
              <<TxtToken>>),
      TConfig(VStr(<<"c","a","s","e">>), << <<TxtX, VStr(<<"$","u">>)>> >>, <<>>),
      TConfig(VStr(<<"$","{","n","o","f","u","n","c","(",")","}">>), <<>>, <<>>),
      [TConfig(VStr(<<"c","a","s","e">>), <<>>, <<>>)
          EXCEPT !.base_url = VStr(<<"$","u">>)]>>

\* the test cases run: a configuration and up to MaxSteps steps
TestCases ==
    UNION {{TestCase(ConfigPool[c], [i \in 1..k |-> StepPool[ix[i]]]) :
               c \in 1..Len(ConfigPool), ix \in [1..k -> 1..Len(StepPool)]} :
           k \in 1..MaxSteps}

\* StepResult
StepResult(name, step_type, success, export_vars, body, steps) ==
    [name |-> name, step_type |-> step_type, success |-> success,
     export_vars |-> export_vars, data |-> [body |-> body, steps |-> steps]]

\* A SessionRunner instance of a test case class, before test_start: case_id
\* and session 0 stand for the unset class attributes.  tries and waits are
\* the outcomes of the attempts and the waits of the step at hand or, before
\* the next step's first attempt ends, of the step before; scope and body are
\* what the last attempt of a step resolved.
NewRunner(case) ==
    [case |-> case, config |-> case.config, export |-> <<>>,
     session_variables |-> <<>>, step_results |-> <<>>, case_id |-> 0,
     session |-> 0, is_referenced |-> FALSE, pc |-> "created", step |-> 0,
     i |-> 0, error |-> "none", tries |-> <<>>, waits |-> <<>>,
     scope |-> <<>>, body |-> Undefined]

-----------------------------------------------------------------------------
(* The session runner: runner.py and step_testcase.py.                     *)

\* utils.merge_variables: the variables override the ones to be overridden
merge_variables(variables, variables_to_be_overridden) ==
    Update(variables_to_be_overridden, variables)

\* a merge in which the config variables override the step's and the session's
merge_step_variables_config_first(runner, variables) ==
    parse_variables_mapping(
        merge_variables(runner.config.variables,
                        merge_variables(variables, runner.session_variables)),
        ProjectFunctions)

\* SessionRunner.merge_step_variables
merge_step_variables(runner, variables) ==
    parse_variables_mapping(
        merge_variables(merge_variables(variables, runner.session_variables),
                        runner.config.variables),
        ProjectFunctions)

RECURSIVE call_hooks(_, _), CallHooksNext(_, _, _)
\* step_request.call_hooks: each hook is resolved against step_variables
\* for its effect; the outcome is "ok" or the exception a hook raised
call_hooks(hooks, step_variables) ==
    IF hooks = <<>> THEN "ok"
    ELSE CallHooksNext(hooks, step_variables,
                       parse_data(hooks[1], step_variables, ProjectFunctions))

CallHooksNext(hooks, step_variables, r) ==
    IF r.st # "ok" THEN r.st ELSE call_hooks(Tail(hooks), step_variables)

\* an export list to which the config's list is added
export_var_names_additive(runner) == runner.export \o runner.config.export

\* self.__export or self.__config.export
export_var_names(runner) ==
    IF runner.export # <<>> THEN runner.export ELSE runner.config.export

\* an export that leaves out the names the session variables lack
export_one_skipping(var_name, session_variables, acc) ==
    IF ~Has(session_variables, var_name) THEN [st |-> "ok", val |-> acc]
    ELSE [st |-> "ok",
          val |-> Put(acc, var_name, Get(session_variables, var_name))]

\* one iteration of the loop of get_export_variables
export_one(var_name, session_variables, acc) ==
    IF ~Has(session_variables, var_name)
    THEN [st |-> "ParamsError", val |-> <<>>]
    ELSE [st |-> "ok",
          val |-> Put(acc, var_name, Get(session_variables, var_name))]

RECURSIVE ExportLoop(_, _, _), ExportNext(_, _, _)
ExportLoop(names, session_variables, acc) ==
    IF names = <<>> THEN [st |-> "ok", val |-> acc]
    ELSE ExportNext(names, session_variables,
                    export_one(names[1], session_variables, acc))

ExportNext(names, session_variables, r) ==
    IF r.st # "ok" THEN r ELSE ExportLoop(Tail(names), session_variables, r.val)

\* SessionRunner.get_export_variables
get_export_variables(runner) ==
    ExportLoop(export_var_names(runner), runner.session_variables, <<>>)

\* a success flag that is the success of the last result
summary_success_of_last(step_results) ==
    step_results = <<>> \/ step_results[Len(step_results)].success

RECURSIVE summary_success(_)
\* the success flag get_summary computes: true until the loop over the
\* results meets one that is not a success, where it breaks
summary_success(step_results) ==
    IF step_results = <<>> THEN TRUE
    ELSE IF ~step_results[1].success THEN FALSE
    ELSE summary_success(Tail(step_results))

\* TestCaseSummary, or the exception get_summary raises
Summary(runner, export) ==
    [st |-> export.st, name |-> runner.config.name,
     success |-> summary_success(runner.step_results),
     case_id |-> runner.case_id, config_vars |-> runner.config.variables,
     export_vars |-> export.val, step_results |-> runner.step_results]

\* SessionRunner.get_summary
get_summary(runner) == Summary(runner, get_export_variables(runner))

\* a retry loop that allows one attempt more
last_attempt_late(i, retry_times) == i = retry_times + 1

\* if i == step.retry_times
last_attempt(i, retry_times) == i = retry_times

\* the outcomes of the attempts of the step at hand, ending with this one
TriesWith(f, outcome) == (IF f.i = 0 THEN <<>> ELSE f.tries) \o <<outcome>>
WaitsSoFar(f) == IF f.i = 0 THEN <<>> ELSE f.waits

\* a retry loop that waits and tries again after any exception
fail_step_retrying_all(f, step, exc) ==
    IF ~last_attempt(f.i, step.retry_times)
    THEN [f EXCEPT !.pc = "sleeping", !.tries = TriesWith(f, exc),
                   !.waits = WaitsSoFar(f)]
    ELSE [f EXCEPT !.pc = "raised", !.error = exc,
                   !.tries = TriesWith(f, exc), !.waits = WaitsSoFar(f)]

\* a runner that records a failed result for every attempt that raises
fail_step_recording(f, step, exc) ==
    IF exc = "ValidationFailure" /\ ~last_attempt(f.i, step.retry_times)
    THEN [f EXCEPT !.pc = "sleeping", !.tries = TriesWith(f, exc),
                   !.waits = WaitsSoFar(f),
                   !.step_results = Append(@,
                       StepResult(step.name, step.kind, FALSE, <<>>,
                                  Undefined, <<>>))]
    ELSE [f EXCEPT !.pc = "raised", !.error = exc,
                   !.tries = TriesWith(f, exc), !.waits = WaitsSoFar(f)]

\* __run_step when step.run raises exc in attempt i: wait and try again after
\* a ValidationFailure that is not the last attempt's, raise otherwise
fail_step(f, step, exc) ==
    IF exc = "ValidationFailure" /\ ~last_attempt(f.i, step.retry_times)
    THEN [f EXCEPT !.pc = "sleeping", !.tries = TriesWith(f, exc),
                   !.waits = WaitsSoFar(f)]
    ELSE [f EXCEPT !.pc = "raised", !.error = exc,
                   !.tries = TriesWith(f, exc), !.waits = WaitsSoFar(f)]

\* a runner that appends the result and leaves the session variables alone
record_result_without_update(f, step_result) ==
    [f EXCEPT !.step_results = Append(@, step_result),
              !.tries = TriesWith(f,
                  IF step_result.success THEN "pass" ELSE "unsuccessful"),
              !.waits = WaitsSoFar(f),
              !.step = @ + 1,
              !.i = 0,
              !.pc = IF f.step = Len(f.case.teststeps)
                     THEN "finished" ELSE "running"]

\* __run_step when step.run returns: update the session variables, append
\* the result; test_start goes on with the next step or returns
record_result(f, step_result) ==
    [f EXCEPT !.session_variables = Update(@, step_result.export_vars),
              !.step_results = Append(@, step_result),
              !.tries = TriesWith(f,
                  IF step_result.success THEN "pass" ELSE "unsuccessful"),
              !.waits = WaitsSoFar(f),
              !.step = @ + 1,
              !.i = 0,
              !.pc = IF f.step = Len(f.case.teststeps)
                     THEN "finished" ELSE "running"]

\* what the transport and the validators of a request step may do
Outcomes == {"pass", "unsuccessful", "ValidationFailure", "TransportError"}

\* a request step's run once its body is resolved
RequestSend(f, step, outcome, body) ==
    IF body.st # "ok" THEN fail_step(f, step, body.st)
    ELSE IF outcome \in {"ValidationFailure", "TransportError"}
    THEN fail_step([f EXCEPT !.body = body.val], step, outcome)
    ELSE record_result([f EXCEPT !.body = body.val],
             StepResult(step.name, "request", outcome = "pass",
                        IF outcome = "pass" THEN step.extract ELSE <<>>,
                        body.val, <<>>))

\* a request step's run once its variables are merged
RequestWith(f, step, outcome, step_variables) ==
    IF step_variables.st = "NoReturn" THEN [f EXCEPT !.pc = "hung"]
    ELSE IF step_variables.st # "ok" THEN fail_step(f, step, step_variables.st)
    ELSE RequestSend([f EXCEPT !.scope = step_variables.val], step, outcome,
                     parse_data(step.body, step_variables.val,
                                ProjectFunctions))

\* the run of a request step
run_step_request(f, step, outcome) ==
    RequestWith([f EXCEPT !.scope = <<>>, !.body = Undefined], step, outcome,
                merge_step_variables(f, step.variables))

\* a referenced runner that is given neither the session nor the case_id
ref_case_runner_own_session(f, step, step_variables) ==
    [NewRunner(step.testcase) EXCEPT
        !.is_referenced = TRUE,
        !.session_variables = step_variables, !.export = step.export]

\* the runner of the referenced test case, as run_step_testcase sets it up
ref_case_runner(f, step, step_variables) ==
    [NewRunner(step.testcase) EXCEPT
        !.is_referenced = TRUE, !.session = f.session, !.case_id = f.case_id,
        !.session_variables = step_variables, !.export = step.export]

\* run_step_testcase once the setup hooks are called
EnterAfterHooks(f, step, hooks) ==
    IF hooks # "ok" THEN <<fail_step(f, step, hooks)>>
    ELSE <<[f EXCEPT !.pc = "waiting"], ref_case_runner(f, step, f.scope)>>

\* run_step_testcase once the variables are merged
EnterWith(f, step, step_variables) ==
    IF step_variables.st = "NoReturn" THEN <<[f EXCEPT !.pc = "hung"]>>
    ELSE IF step_variables.st # "ok"
    THEN <<fail_step(f, step, step_variables.st)>>
    ELSE EnterAfterHooks([f EXCEPT !.scope = step_variables.val], step,
                         call_hooks(step.setup_hooks, step_variables.val))

\* run_step_testcase up to the call of the referenced test case's test_start
enter_step_testcase(f, step) ==
    EnterWith([f EXCEPT !.scope = <<>>, !.body = Undefined], step,
              merge_step_variables(f, step.variables))

\* a step result that exports every session variable of the referenced run
LeaveWith_all_variables(f, step, nested, hooks, s) ==
    IF hooks # "ok" THEN fail_step(f, step, hooks)
    ELSE IF s.st # "ok" THEN fail_step(f, step, s.st)
    ELSE record_result(f,
             StepResult(step.name, "testcase", s.success,
                        nested.session_variables, Undefined, s.step_results))

\* run_step_testcase once the summary of the referenced test case is asked
LeaveWith(f, step, nested, hooks, s) ==
    IF hooks # "ok" THEN fail_step(f, step, hooks)
    ELSE IF s.st # "ok" THEN fail_step(f, step, s.st)
    ELSE record_result(f,
             StepResult(step.name, "testcase", s.success, s.export_vars,
                        Undefined, s.step_results))

\* run_step_testcase after test_start of the referenced test case returned:
\* the teardown hooks are called with the step's own variables
leave_step_testcase(f, step, nested) ==
    LeaveWith(f, step, nested, call_hooks(step.teardown_hooks, step.variables),
              get_summary(nested))

\* __parse_config once the variables are resolved
ParseConfigNames(f, name, base_url) ==
    IF name.st # "ok" THEN [f EXCEPT !.pc = "raised", !.error = name.st]
    ELSE IF base_url.st # "ok"
    THEN [f EXCEPT !.pc = "raised", !.error = base_url.st,
                   !.config.name = name.val]
    ELSE [f EXCEPT !.config.name = name.val,
                   !.config.base_url = base_url.val,
                   !.step = 1,
                   !.pc = IF f.case.teststeps = <<>>
                          THEN "finished" ELSE "running"]

\* a __parse_config that goes on to the steps when the variables fail
ParseConfigWith_going_on(f, r) ==
    IF r.st # "ok" THEN [f EXCEPT !.step = 1, !.pc = "running"]
    ELSE ParseConfigNames([f EXCEPT !.config.variables = r.val],
                          parse_data(f.config.name, r.val, ProjectFunctions),
                          parse_data(f.config.base_url, r.val,
                                     ProjectFunctions))

\* __parse_config once config.variables is updated with the session variables
ParseConfigWith(f, r) ==
    IF r.st = "NoReturn" THEN [f EXCEPT !.pc = "hung"]
    ELSE IF r.st # "ok" THEN [f EXCEPT !.pc = "raised", !.error = r.st]
    ELSE ParseConfigNames([f EXCEPT !.config.variables = r.val],
                          parse_data(f.config.name, r.val, ProjectFunctions),
                          parse_data(f.config.base_url, r.val,
                                     ProjectFunctions))

\* __parse_config
parse_config(f) ==
    ParseConfigWith(
        [f EXCEPT !.config.variables = Update(@, f.session_variables)],
        parse_variables_mapping(
            Update(f.config.variables, f.session_variables), ProjectFunctions))

\* __init: the attributes that are unset get their values; fresh stands for
\* a new uuid4 and a new HttpSession
runner_init(f, fresh) ==
    [f EXCEPT !.config = f.case.config,
              !.case_id = IF @ = 0 THEN fresh ELSE @,
              !.session = IF @ = 0 THEN fresh ELSE @]

Top(fs) == fs[Len(fs)]
Below(fs) == SubSeq(fs, 1, Len(fs) - 1)
\* a step loop that takes the steps from the last one to the first
CurrentStep_backwards(f) ==
    f.case.teststeps[Len(f.case.teststeps) + 1 - f.step]

CurrentStep(f) == f.case.teststeps[f.step]

RunInit ==
    /\ \E case \in TestCases : frames = <<NewRunner(case)>>
    /\ summary = NoSummary
    /\ last_nested = NoNested
    /\ TemplateIdle
    /\ PvmIdle
    /\ CallIdle

\* test_start up to the first step: __init and __parse_config
TestStart ==
    /\ frames # <<>>
    /\ Top(frames).pc = "created"
    /\ frames' = Below(frames)
                    \o <<parse_config(runner_init(Top(frames), Len(frames)))>>
    /\ UNCHANGED <<summary, last_nested>>
    /\ UNCHANGED TemplateVars
    /\ UNCHANGED PvmVars
    /\ UNCHANGED CallVars

\* one attempt of a request step
AttemptRequest ==
    /\ frames # <<>>
    /\ Top(frames).pc = "running"
    /\ CurrentStep(Top(frames)).kind = "request"
    /\ \E outcome \in Outcomes :
          frames' = Below(frames)
                       \o <<run_step_request(Top(frames),
                                CurrentStep(Top(frames)), outcome)>>
    /\ UNCHANGED <<summary, last_nested>>
    /\ UNCHANGED TemplateVars
    /\ UNCHANGED PvmVars
    /\ UNCHANGED CallVars

\* one attempt of a referenced test case step, up to its test_start
EnterTestCase ==
    /\ frames # <<>>
    /\ Top(frames).pc = "running"
    /\ CurrentStep(Top(frames)).kind = "testcase"
    /\ frames' = Below(frames)
                    \o enter_step_testcase(Top(frames),
                                           CurrentStep(Top(frames)))
    /\ UNCHANGED <<summary, last_nested>>
    /\ UNCHANGED TemplateVars
    /\ UNCHANGED PvmVars
    /\ UNCHANGED CallVars

\* time.sleep(step.retry_interval), then the next attempt
Sleep ==
    /\ frames # <<>>
    /\ Top(frames).pc = "sleeping"
    /\ frames' = Below(frames)
                    \o <<[Top(frames) EXCEPT
                            !.waits = Append(@,
                                CurrentStep(Top(frames)).retry_interval),
                            !.i = @ + 1,
                            !.pc = "running"]>>
    /\ UNCHANGED <<summary, last_nested>>
    /\ UNCHANGED TemplateVars
    /\ UNCHANGED PvmVars
    /\ UNCHANGED CallVars

\* test_start of a referenced test case returned: the rest of the calling
\* step's run
ReturnToCaller ==
    /\ Len(frames) > 1
    /\ Top(frames).pc = "finished"
    /\ frames' = Below(Below(frames))
                    \o <<leave_step_testcase(Top(Below(frames)),
                             CurrentStep(Top(Below(frames))), Top(frames))>>
    /\ last_nested' = <<Top(frames)>>
    /\ UNCHANGED summary
    /\ UNCHANGED TemplateVars
    /\ UNCHANGED PvmVars
    /\ UNCHANGED CallVars

\* test_start of a referenced test case raised: the calling step's run raises
PropagateToCaller ==
    /\ Len(frames) > 1
    /\ Top(frames).pc = "raised"
    /\ frames' = Below(Below(frames))
                    \o <<fail_step(Top(Below(frames)),
                             CurrentStep(Top(Below(frames))),
                             Top(frames).error)>>
    /\ last_nested' = <<Top(frames)>>
    /\ UNCHANGED summary
    /\ UNCHANGED TemplateVars
    /\ UNCHANGED PvmVars
    /\ UNCHANGED CallVars

\* get_summary of the outermost runner, after test_start returned or raised
GetSummary ==
    /\ Len(frames) = 1
    /\ Top(frames).pc \in {"finished", "raised"}
    /\ summary = NoSummary
    /\ summary' = <<get_summary(Top(frames))>>
    /\ UNCHANGED <<frames, last_nested>>
    /\ UNCHANGED TemplateVars
    /\ UNCHANGED PvmVars
    /\ UNCHANGED CallVars

RunNext ==
    \/ TestStart \/ AttemptRequest \/ EnterTestCase \/ Sleep
    \/ ReturnToCaller \/ PropagateToCaller \/ GetSummary

SpecRun == RunInit /\ [][RunNext]_vars

-----------------------------------------------------------------------------
(* get_mapping_function called on its own.                                 *)

TxtNoFunc == <<"n","o","f","u","n","c">>

\* the function names looked up
FunctionNames ==
    {TxtAddOne, TxtSumTwo, TxtParameterize, TxtP, TxtEnviron, TxtENV,
     TxtMultipartEncoder, TxtMultipartContentType, TxtGetTimestamp, TxtLen,
     TxtStr, TxtNoFunc}

\* functions a project's debugtalk.py may define, some under a reserved name
\* or under the name of a built-in
DebugtalkFunctions ==
    << <<TxtAddOne, "add_one">>, <<TxtP, "P">>, <<TxtEnviron, "environ">>,
       <<TxtMultipartEncoder, "multipart_encoder">>,
       <<TxtGetTimestamp, "get_timestamp">>, <<TxtLen, "len">> >>

\* the functions mappings: every choice among the functions of debugtalk.py
FunctionsMappings ==
    {SelectSeq(DebugtalkFunctions, LAMBDA pr : pr[1] \in chosen) :
        chosen \in SUBSET Keys(DebugtalkFunctions)}

LookupInit ==
    /\ call_args \in [fn : {"get_mapping_function"},
                       function_name : FunctionNames,
                       functions_mapping : FunctionsMappings]
    /\ call_result = NoCall
    /\ TemplateIdle
    /\ PvmIdle
    /\ RunIdle

\* the call of get_mapping_function returns or raises
GetMappingFunction ==
    /\ call_args # NoCall
    /\ call_args.fn = "get_mapping_function"
    /\ call_result = NoCall
    /\ call_result' = <<get_mapping_function(call_args.function_name,
                                             call_args.functions_mapping)>>
    /\ UNCHANGED call_args
    /\ UNCHANGED TemplateVars
    /\ UNCHANGED PvmVars
    /\ UNCHANGED RunVars

LookupNext == GetMappingFunction

SpecLookup == LookupInit /\ [][LookupNext]_vars

-----------------------------------------------------------------------------
(* parse_parameters.                                                       *)

MaxParams == 3

RECURSIVE split(_, _)
\* str.split(sep)
split(s, sep) ==
    IF \A i \in 1..Len(s) : s[i] # sep THEN <<s>>
    ELSE LET i == CHOOSE k \in 1..Len(s) :
                      s[k] = sep /\ \A j \in 1..(k - 1) : s[j] # sep
         IN <<SubSeq(s, 1, i - 1)>> \o split(SubSeq(s, i + 1, Len(s)), sep)

RECURSIVE zip_dict(_, _, _)
\* dict(zip(names, values)): as many pairs as the shorter of the two has
zip_dict(names, values, acc) ==
    IF names = <<>> \/ values = <<>> THEN acc
    ELSE zip_dict(Tail(names), Tail(values), Put(acc, names[1], values[1]))

\* an item of a data list that is not a list is wrapped into one
item_as_list(item) == IF Tag(item) = "list" THEN item[2] ELSE <<item>>

\* (1) data list: one dict per item
data_list(names, items) ==
    [k \in 1..Len(items) |-> zip_dict(names, item_as_list(items[k]), <<>>)]

RECURSIVE subset_by_names(_, _, _)
\* {key: parameter_item[key] for key in parameter_name_list}
subset_by_names(names, item, acc) ==
    IF names = <<>> THEN [st |-> "ok", val |-> acc]
    ELSE IF ~Has(item, VStr(names[1])) THEN [st |-> "KeyError", val |-> <<>>]
    ELSE subset_by_names(Tail(names), item,
                         Put(acc, names[1], Get(item, VStr(names[1]))))

\* the dict of one item of what the function call returned
parameter_dict(names, item) ==
    IF Tag(item) = "dict" THEN subset_by_names(names, item[2], <<>>)
    ELSE IF Tag(item) = "list"
    THEN IF Len(names) = Len(item[2])
         THEN [st |-> "ok", val |-> zip_dict(names, item[2], <<>>)]
         ELSE [st |-> "ParamsError", val |-> <<>>]
    ELSE IF Len(names) = 1
    THEN [st |-> "ok", val |-> << <<names[1], item>> >>]
    ELSE [st |-> "ParamsError", val |-> <<>>]

RECURSIVE parsed_content_list(_, _, _), ParsedContentNext(_, _, _, _)
\* the loop over the items of what the function call returned
parsed_content_list(names, items, acc) ==
    IF items = <<>> THEN [st |-> "ok", val |-> acc]
    ELSE ParsedContentNext(names, items, acc, parameter_dict(names, items[1]))

ParsedContentNext(names, items, acc, d) ==
    IF d.st # "ok" THEN d
    ELSE parsed_content_list(names, Tail(items), Append(acc, d.val))

\* (2) and (3): a function call, once parse_data has resolved it
call_content(names, r) ==
    IF r.st # "ok" THEN [st |-> r.st, val |-> <<>>]
    ELSE IF Tag(r.val) # "list" THEN [st |-> "ParamsError", val |-> <<>>]
    ELSE parsed_content_list(names, r.val[2], <<>>)

\* the list of dicts of one entry of the parameters
parameter_content_list(name, content, functions) ==
    IF Tag(content) = "list"
    THEN [st |-> "ok", val |-> data_list(split(name, "-"), content[2])]
    ELSE IF Tag(content) = "str"
    THEN call_content(split(name, "-"), parse_data(content, <<>>, functions))
    ELSE [st |-> "ParamsError", val |-> <<>>]

RECURSIVE product_with(_, _)
\* the dicts of first, each merged with every dict of rest in turn
product_with(first, rest) ==
    IF first = <<>> THEN <<>>
    ELSE [k \in 1..Len(rest) |-> Update(first[1], rest[k])]
            \o product_with(Tail(first), rest)

RECURSIVE gen_cartesian_product(_)
\* utils.gen_cartesian_product: one merged dict per combination, the first
\* list varying slowest
gen_cartesian_product(lists) ==
    IF lists = <<>> THEN << <<>> >>
    ELSE product_with(lists[1], gen_cartesian_product(Tail(lists)))

\* a list of lists that takes each new list in front
append_list_in_front(parsed_parameters_list, parameter_content) ==
    <<parameter_content>> \o parsed_parameters_list

\* parsed_parameters_list.append(parameter_content_list)
append_list(parsed_parameters_list, parameter_content) ==
    Append(parsed_parameters_list, parameter_content)

RECURSIVE ParametersLoop(_, _, _), ParametersNext(_, _, _, _)
\* the loop over parameters.items(), then the product
ParametersLoop(parameters, functions, acc) ==
    IF parameters = <<>>
    THEN [st |-> "ok", val |-> gen_cartesian_product(acc)]
    ELSE ParametersNext(parameters, functions, acc,
             parameter_content_list(parameters[1][1], parameters[1][2],
                                    functions))

\* the rest of one iteration: the entry's list is kept, or its exception ends
\* the call
ParametersNext(parameters, functions, acc, l) ==
    IF l.st # "ok" THEN l
    ELSE ParametersLoop(Tail(parameters), functions, append_list(acc, l.val))

\* the functions of the project's debugtalk.py that load_project_meta finds
ParameterFunctions ==
    ProjectFunctions \o << <<<<"g","e","t","_","a","c","c","o","u","n","t">>, "get_account">>,
                           <<<<"g","e","t","_","u","s","e","r","s">>, "get_users">> >>

parse_parameters(parameters) ==
    ParametersLoop(parameters, ParameterFunctions, <<>>)

\* the entries parameters are made of
ParameterPool ==
    << <<<<"a">>, VList(<<VInt(1), VInt(2)>>)>>,
       <<<<"b">>, VList(<<VInt(10), VInt(20)>>)>>,
       <<<<"m">>, VList(<<VInt(1), VInt(2), VInt(3)>>)>>,
       <<<<"u","-","p">>,
         VList(<<VList(<<VStr(<<"u","1">>), VStr(<<"p","1">>)>>),
                 VList(<<VStr(<<"u","2">>), VStr(<<"p","2">>)>>)>>)>>,
       <<<<"a","-","b">>, VList(<<VList(<<VInt(7), VInt(8)>>)>>)>>,
       <<<<"v">>, VStr(<<"$","{","g","e","n","_","a","p","p","_","v","e","r","s","i","o","n","(",")","}">>)>>,
       <<<<"w","-","z">>, VStr(<<"$","{","g","e","t","_","a","c","c","o","u","n","t","(",")","}">>)>>,
       <<<<"u">>, VStr(<<"$","{","g","e","t","_","u","s","e","r","s","(",")","}">>)>>,
       <<<<"x">>, VStr(<<"$","{","a","d","d","_","o","n","e","(","1",")","}">>)>>,
       <<<<"e">>, VList(<<>>)>>,
       <<<<"n">>, VInt(3)>>,
       <<<<"c","-","d">>, VList(<<VInt(5)>>)>>,
       <<<<"w">>, VStr(<<"$","{","g","e","t","_","a","c","c","o","u","n","t","(",")","}">>)>>,
       <<<<"q","-","r">>, VStr(<<"$","{","g","e","n","_","a","p","p","_","v","e","r","s","i","o","n","(",")","}">>)>> >>

\* the parameters: up to MaxParams entries of different names, in any order
ParameterSpecs ==
    UNION {{[i \in 1..k |-> ParameterPool[ix[i]]] :
               ix \in {g \in [1..k -> 1..Len(ParameterPool)] :
                          \A i, j \in 1..k : g[i] = g[j] => i = j}} :
           k \in 1..MaxParams}

ParametersInit ==
    /\ call_args \in [fn : {"parse_parameters"}, parameters : ParameterSpecs]
    /\ call_result = NoCall
    /\ TemplateIdle
    /\ PvmIdle
    /\ RunIdle

\* the call of parse_parameters returns or raises
ParseParameters ==
    /\ call_args # NoCall
    /\ call_args.fn = "parse_parameters"
    /\ call_result = NoCall
    /\ call_result' = <<parse_parameters(call_args.parameters)>>
    /\ UNCHANGED call_args
    /\ UNCHANGED TemplateVars
    /\ UNCHANGED PvmVars
    /\ UNCHANGED RunVars

ParametersNextStep == ParseParameters

SpecParameters == ParametersInit /\ [][ParametersNextStep]_vars

-----------------------------------------------------------------------------
(* extract_variables and parse_data on nested content, as the visit of one *)
(* variable in parse_variables_mapping uses them: the dependency check,    *)
(* then the resolution.                                                    *)

\* the strings nested content is made of
ContentStrings ==
    {VStr(<<"$","n">>), VStr(<<"$","{","a","d","d","_","o","n","e","(","$","n",")","}">>),
     VStr(<<"v","a","l","=","$","m">>), VStr(<<"x">>), VStr(<<"$","$","n">>)}

\* strings, a number, sequences of one or two items, mappings of one pair,
\* sequences of a mapping and mappings to a sequence
Contents ==
    LET atoms == ContentStrings \cup {VInt(1)}
        lists == {VList(<<a>>) : a \in atoms}
                    \cup {VList(<<a, b>>) : a, b \in ContentStrings}
        dicts == {VDict(<< <<k, v>> >>) : k \in ContentStrings, v \in atoms}
    IN atoms \cup lists \cup dicts
          \cup {VList(<<d>>) : d \in dicts}
          \cup {VDict(<< <<VStr(<<"x">>), l>> >>) : l \in lists}

\* the variables resolved so far
ContentMappings ==
    { <<>>,
      << <<<<"n">>, VInt(3)>> >>,
      << <<<<"n">>, VInt(3)>>, <<<<"m">>, VStr(<<"t">>)>> >> }

ExtractInit ==
    /\ call_args \in [fn : {"extract_variables"}, content : Contents,
                       variables_mapping : ContentMappings]
    /\ call_result = NoCall
    /\ TemplateIdle
    /\ PvmIdle
    /\ RunIdle

\* extract_variables(content), then parse_data(content, variables_mapping)
CheckThenResolve ==
    /\ call_args # NoCall
    /\ call_args.fn = "extract_variables"
    /\ call_result = NoCall
    /\ call_result' = <<[found |-> extract_variables(call_args.content),
                         parsed |-> parse_data(call_args.content,
                                               call_args.variables_mapping,
                                               ProjectFunctions)]>>
    /\ UNCHANGED call_args
    /\ UNCHANGED TemplateVars
    /\ UNCHANGED PvmVars
    /\ UNCHANGED RunVars

ExtractNext == CheckThenResolve

SpecExtract == ExtractInit /\ [][ExtractNext]_vars

-----------------------------------------------------------------------------
(* parse_string, one action per iteration of its while loop.  The state of *)
(* the scan is kept in call_result: match_start_position (pos), the text   *)
(* built so far, and the regions of raw_string the scan went over, each    *)
(* with the text it added.                                                 *)

Region(from, to, kind, out) ==
    [from |-> from, to |-> to, kind |-> kind, out |-> out]

\* parse_string up to the while loop: the text before the first "$", or
\* the whole string when it has none
scan_first(raw_string) ==
    LET first == IndexFrom(raw_string, "$", 1)
    IN IF first = 0
       THEN [pc |-> "returned", pos |-> Len(raw_string) + 1,
             parsed_string |-> raw_string, val |-> VStr(raw_string),
             error |-> "none",
             regions |-> <<Region(1, Len(raw_string), "text", raw_string)>>]
       ELSE [pc |-> "while", pos |-> first,
             parsed_string |-> SubSeq(raw_string, 1, first - 1),
             val |-> Undefined, error |-> "none",
             regions |-> IF first = 1 THEN <<>>
                         ELSE <<Region(1, first - 1, "text",
                                       SubSeq(raw_string, 1, first - 1))>>]

\* parsed_string += out; match_start_position = end; continue
scan_continue(s, end, kind, out) ==
    [s EXCEPT !.pos = end, !.parsed_string = @ \o out,
              !.regions = Append(@, Region(s.pos, end - 1, kind, out))]

\* return of the value of a whole function call or variable reference
scan_return(s, end, kind, value) ==
    [s EXCEPT !.pc = "returned", !.pos = end, !.val = value,
              !.regions = Append(@, Region(s.pos, end - 1, kind, Str(value)))]

scan_raise(s, exc) == [s EXCEPT !.pc = "raised", !.error = exc]

\* the func_match branch; r is the outcome of evaluating the call
scan_function(raw_string, s, m, r) ==
    IF r.st # "ok" THEN scan_raise(s, r.st)
    ELSE IF is_whole_function(m.name, m.params, raw_string)
    THEN scan_return(s, m.end, "func", r.val)
    ELSE scan_continue(s, m.end, "func", Str(r.val))

\* the var_match branch; got is the outcome of get_mapping_variable
scan_variable(raw_string, s, m, got) ==
    IF got.st # "ok" THEN scan_raise(s, got.st)
    ELSE IF is_whole_variable(m.name, raw_string)
    THEN scan_return(s, m.end, "var", got.val)
    ELSE scan_continue(s, m.end, "var", Str(got.val))

\* one iteration of the while loop of parse_string
scan_step(raw_string, s, mapping, functions) ==
    IF dollar_match(raw_string, s.pos)
    THEN scan_continue(s, s.pos + 2, "dollar", <<"$">>)
    ELSE IF function_match(raw_string, s.pos).matched
    THEN scan_function(raw_string, s, function_match(raw_string, s.pos),
             parse_string(SubSeq(raw_string, s.pos,
                                 function_match(raw_string, s.pos).end - 1),
                          mapping, functions))
    ELSE IF variable_match(raw_string, s.pos).matched
    THEN scan_variable(raw_string, s, variable_match(raw_string, s.pos),
             get_mapping_variable(variable_match(raw_string, s.pos).name,
                                  mapping))
    ELSE scan_continue(s, next_position(raw_string, s.pos), "remain",
                       remain_string(raw_string, s.pos))

\* the raw strings scanned
ScanStrings == {Render(ss) : ss \in SegSeqs}

ScanInit ==
    /\ call_args \in [fn : {"parse_string"}, raw_string : ScanStrings,
                      variables_mapping : SomeVariables,
                      functions_mapping : {ProjectFunctions}]
    /\ call_result = NoCall
    /\ TemplateIdle
    /\ PvmIdle
    /\ RunIdle

\* parse_string is entered
ScanStart ==
    /\ call_args # NoCall
    /\ call_args.fn = "parse_string"
    /\ call_result = NoCall
    /\ call_result' = <<scan_first(call_args.raw_string)>>
    /\ UNCHANGED call_args
    /\ UNCHANGED TemplateVars
    /\ UNCHANGED PvmVars
    /\ UNCHANGED RunVars

\* while match_start_position < len(raw_string): one iteration
ScanStep ==
    /\ call_args # NoCall
    /\ call_args.fn = "parse_string"
    /\ call_result # NoCall
    /\ call_result[1].pc = "while"
    /\ call_result[1].pos <= Len(call_args.raw_string)
    /\ call_result' = <<scan_step(call_args.raw_string, call_result[1],
                                  call_args.variables_mapping,
                                  call_args.functions_mapping)>>
    /\ UNCHANGED call_args
    /\ UNCHANGED TemplateVars
    /\ UNCHANGED PvmVars
    /\ UNCHANGED RunVars

\* the while condition fails: return parsed_string
ScanEnd ==
    /\ call_args # NoCall
    /\ call_args.fn = "parse_string"
    /\ call_result # NoCall
    /\ call_result[1].pc = "while"
    /\ call_result[1].pos > Len(call_args.raw_string)
    /\ call_result' = <<[call_result[1] EXCEPT
                            !.pc = "returned",
                            !.val = VStr(call_result[1].parsed_string)]>>
    /\ UNCHANGED call_args
    /\ UNCHANGED TemplateVars
    /\ UNCHANGED PvmVars
    /\ UNCHANGED RunVars

ScanNext == ScanStart \/ ScanStep \/ ScanEnd

SpecScan == ScanInit /\ [][ScanNext]_vars

-----------------------------------------------------------------------------
(* Retries, visibility of exported variables and the export contract.      *)

\* the step whose attempts tries and waits of runner f record (0: none yet)
TriedStep(f) ==
    IF \/ f.pc = "sleeping"
       \/ f.pc = "raised" /\ f.step >= 1
       \/ f.pc \in {"running", "waiting"} /\ f.i > 0
    THEN f.step ELSE f.step - 1

\* the step whose last attempt scope and body of runner f record
ScopeStep(f) == IF f.pc = "waiting" THEN f.step ELSE TriedStep(f)

\* the next attempt of the step is due: the runner has waited for it
AttemptDue(f) == f.pc \in {"running", "waiting"} /\ f.i > 0

RetryRight(f, step) ==
    /\ f.tries # <<>>
    /\ Len(f.tries) <= step.retry_times + 1
    /\ \A j \in 1..(Len(f.tries) - 1) : f.tries[j] = "ValidationFailure"
    /\ \A j \in 1..Len(f.waits) : f.waits[j] = step.retry_interval
    /\ Len(f.waits) = IF AttemptDue(f) THEN Len(f.tries) ELSE Len(f.tries) - 1
    /\ f.tries[Len(f.tries)] = "pass" =>
         /\ Len(f.step_results) = f.step - 1
         /\ f.step_results[TriedStep(f)].success
         /\ f.step_results[TriedStep(f)].name = step.name

\* C8: the attempts of a step are at most retry_times + 1, every attempt but
\* the last failed validation, so that a step whose attempt k is the first to
\* pass makes k attempts and records one successful result; the runner waits
\* retry_interval between two attempts and never after the last one.
C8_RetryUntilFirstPass ==
    \A d \in 1..Len(frames) :
        TriedStep(frames[d]) >= 1 =>
            RetryRight(frames[d], frames[d].case.teststeps[TriedStep(frames[d])])

\* two failed validations, two waits, then the attempt that passes
C8_Witness ==
    /\ Len(frames) = 1
    /\ frames[1].tries = <<"ValidationFailure", "ValidationFailure", "pass">>
    /\ frames[1].waits = <<RetryInterval, RetryInterval>>
    /\ Len(frames[1].step_results) = 1
    /\ frames[1].step_results[1].success

RECURSIVE Exported(_, _, _)
\* seed updated with the export_vars of the first k results
Exported(seed, results, k) ==
    IF k = 0 THEN seed
    ELSE Update(Exported(seed, results, k - 1), results[k].export_vars)

\* the session variables runner d started with
Seed(d) == IF d = 1 THEN <<>> ELSE frames[d - 1].scope

\* what the steps that finished before step k of runner d left to it
Inherited(d, k) ==
    Update(frames[d].config.variables,
           Exported(Seed(d), frames[d].step_results, k - 1))

Outside(m, names) == {pr \in AsSet(m) : pr[1] \notin names}

\* The scope of the last attempted step holds, besides the step's own
\* variables, exactly what the config and the steps finished before it gave.
Causal(d) ==
    LET f == frames[d]
        k == ScopeStep(f)
    IN (k >= 1 /\ f.scope # <<>>) =>
          Outside(f.scope, Keys(f.case.teststeps[k].variables))
             = Outside(Inherited(d, k), Keys(f.case.teststeps[k].variables))

\* some step before step k of runner f exported token = "abc"
TokenExportedBefore(f, k) ==
    \E j \in 1..(k - 1) :
        /\ j <= Len(f.step_results)
        /\ Has(f.step_results[j].export_vars, TxtToken)
        /\ Get(f.step_results[j].export_vars, TxtToken) = VStr(<<"a","b","c">>)

\* the last step before step k of runner f that exported token exported "abc"
TokenLastExportedBefore(f, k) ==
    \E j \in 1..(k - 1) :
        /\ j <= Len(f.step_results)
        /\ Has(f.step_results[j].export_vars, TxtToken)
        /\ Get(f.step_results[j].export_vars, TxtToken) = VStr(<<"a","b","c">>)
        /\ \A l \in (j + 1)..(k - 1) :
              ~Has(f.step_results[l].export_vars, TxtToken)

\* the last attempted step of runner f resolved the body "Bearer $token"
ResolvedBearer(f) ==
    /\ ScopeStep(f) >= 1
    /\ f.case.teststeps[ScopeStep(f)].body = VStr(TxtBearerToken)
    /\ f.body # Undefined

\* C9 as stated: every step after one that exported token = "abc" resolves
\* "Bearer $token" to "Bearer abc", and a scope holds nothing of later steps.
C9_LaterStepsSeeExport ==
    \A d \in 1..Len(frames) :
        /\ Causal(d)
        /\ (ResolvedBearer(frames[d])
              /\ TokenExportedBefore(frames[d], ScopeStep(frames[d])))
             => frames[d].body = VStr(TxtBearerAbc)

\* C9: a step after one that exported token = "abc" resolves "Bearer $token"
\* to "Bearer abc" when its own variables do not define token and no step in
\* between exported token again; a scope holds, besides the step's own
\* variables, exactly what the config and the steps finished before it gave.
C9_LaterStepsSeeLatestExport ==
    \A d \in 1..Len(frames) :
        /\ Causal(d)
        /\ (/\ ResolvedBearer(frames[d])
            /\ TokenLastExportedBefore(frames[d], ScopeStep(frames[d]))
            /\ ~Has(frames[d].case.teststeps[ScopeStep(frames[d])].variables,
                    TxtToken))
             => frames[d].body = VStr(TxtBearerAbc)

\* login exports token = "abc", the next step sends "Bearer abc"
C9_Witness ==
    /\ Len(frames) = 1
    /\ frames[1].case.teststeps = <<StepLogin, StepUse>>
    /\ Len(frames[1].step_results) = 2
    /\ Get(frames[1].step_results[1].export_vars, TxtToken)
          = VStr(<<"a","b","c">>)
    /\ frames[1].step_results[2].data.body = VStr(TxtBearerAbc)

\* the export list of runner f names a variable its session variables lack
MissingExport(f) ==
    \E k \in 1..Len(export_var_names(f)) :
        ~Has(f.session_variables, export_var_names(f)[k])

\* the outcome of exporting from runner f is ParamsError when a name is
\* missing, and else the mapping of every listed name to its session value
ExportRight(f, st, export_vars) ==
    IF MissingExport(f) THEN st = "ParamsError"
    ELSE /\ st = "ok"
         /\ Keys(export_vars) = {export_var_names(f)[k] :
                                    k \in 1..Len(export_var_names(f))}
         /\ \A n \in Keys(export_vars) :
               Get(export_vars, n) = Get(f.session_variables, n)

\* C10: get_summary of a runner whose export list names a variable absent
\* from its session variables raises ParamsError, and returns the listed
\* variables with their session values otherwise; when the runner is that of
\* a referenced test case, the calling step raises and records no StepResult.
C10_MissingExportIsParamsError ==
    [][/\ (summary = NoSummary /\ summary' # NoSummary) =>
             ExportRight(Top(frames), summary'[1].st, summary'[1].export_vars)
       /\ (/\ Len(frames) > 1
           /\ Len(frames') = Len(frames) - 1
           /\ Top(frames).pc = "finished"
           /\ MissingExport(Top(frames))) =>
             /\ Top(frames').pc = "raised"
             /\ Top(frames').error = "ParamsError"
             /\ Top(frames').step_results = Top(Below(frames)).step_results
             /\ Top(frames').session_variables
                   = Top(Below(frames)).session_variables]_vars

\* the referenced test case finished without defining x, the calling step
\* raised ParamsError and recorded nothing
C10_Witness ==
    /\ Len(frames) = 1
    /\ frames[1].pc = "raised"
    /\ frames[1].error = "ParamsError"
    /\ frames[1].step_results = <<>>
    /\ last_nested # NoNested
    /\ last_nested[1].pc = "finished"
    /\ last_nested[1].export = <<TxtX>>
    /\ ~Has(last_nested[1].session_variables, TxtX)

-----------------------------------------------------------------------------
(* The summary of a run.                                                   *)

\* every step of the test case of runner f was run and its result is a success
AllStepsPassed(f) ==
    /\ f.pc = "finished"
    /\ Len(f.step_results) = Len(f.case.teststeps)
    /\ \A k \in 1..Len(f.step_results) : f.step_results[k].success

\* C11: a summary with success true means that every step of the test case
\* was executed and passed; a run in which a step failed validation on its
\* last attempt yields no summary with success true.
C11_SuccessMeansAllPassed ==
    \A s \in AsSet(summary) :
        (s.st = "ok" /\ s.success) => AllStepsPassed(frames[1])

\* test_start of runner f raised the ValidationFailure of a step's last attempt
ValidationAbort(f) ==
    f.pc = "raised" /\ f.error = "ValidationFailure" /\ f.step >= 1

\* the results of s are those of the first n steps of runner f, in order
ResultsOfFirst(s, f, n) ==
    /\ s.step_results = f.step_results
    /\ Len(s.step_results) = n
    /\ \A k \in 1..Len(s.step_results) :
           s.step_results[k].name = f.case.teststeps[k].name

\* C12: when the last allowed attempt of a step raised ValidationFailure,
\* test_start raised it, and the get_summary that follows returns a summary
\* whose step_results are the results of the steps completed before the
\* failing step, in order.
C12_AbortStillYieldsSummary ==
    \A s \in AsSet(summary) :
        ValidationAbort(frames[1]) =>
            s.st = "ok" /\ ResultsOfFirst(s, frames[1], frames[1].step - 1)

-----------------------------------------------------------------------------
(* The scope of a step and the order of a run.                             *)

\* the value of name n by precedence: the step's own, else the one inherited
\* from earlier steps, else the config's
ByPrecedence(n, local, session, config) ==
    IF Has(local, n) THEN Get(local, n)
    ELSE IF Has(session, n) THEN Get(session, n) ELSE Get(config, n)

\* the mapping of every name of the three sources to its value by precedence
PrecedenceMerge(local, session, config) ==
    LET names == KeySeq(Update(Update(local, session), config))
    IN [j \in 1..Len(names) |->
           <<names[j], ByPrecedence(names[j], local, session, config)>>]

\* the scope of the last attempted step of runner d is the resolution of the
\* merge by precedence, and the body sent is resolved against that scope
ScopeRight(d) ==
    LET f == frames[d]
        k == ScopeStep(f)
        step == f.case.teststeps[k]
        merged == PrecedenceMerge(step.variables,
                      Exported(Seed(d), f.step_results, k - 1),
                      f.config.variables)
    IN /\ AsSet(f.scope)
             = AsSet(parse_variables_mapping(merged, ProjectFunctions).val)
       /\ f.body # Undefined =>
             f.body = parse_data(step.body, f.scope, ProjectFunctions).val

\* C13: of the values the sources of a step's variables give to one name, the
\* step's own wins over the one inherited from earlier steps, which wins over
\* the config's; the merged mapping is resolved by parse_variables_mapping
\* before the step uses it.
C13_StepOverSessionOverConfig ==
    \A d \in 1..Len(frames) :
        (ScopeStep(frames[d]) >= 1 /\ frames[d].scope # <<>>) => ScopeRight(d)

\* token is "cfg" in the config, "abc" in the session variables and "loc" in
\* the step's own variables: the step sends "Bearer loc"
C13_Witness ==
    /\ Len(frames) = 1
    /\ frames[1].case.teststeps = <<StepLogin, StepShadow>>
    /\ Len(frames[1].step_results) = 2
    /\ Has(frames[1].config.variables, TxtToken)
    /\ Get(frames[1].config.variables, TxtToken) = VStr(<<"c","f","g">>)
    /\ Get(frames[1].session_variables, TxtToken) = VStr(<<"a","b","c">>)
    /\ Get(frames[1].scope, TxtToken) = VStr(<<"l","o","c">>)
    /\ frames[1].step_results[2].data.body
          = VStr(<<"B","e","a","r","e","r"," ","l","o","c">>)

\* the config of runner d is resolved: its variables are the declared ones
\* updated with the seed and resolved, its name and base_url are resolved
\* against them
ConfigResolved(d) ==
    LET f == frames[d]
        declared == f.case.config
        r == parse_variables_mapping(Update(declared.variables, Seed(d)),
                                     ProjectFunctions)
    IN /\ r.st = "ok"
       /\ f.config.variables = r.val
       /\ f.config.name
             = parse_data(declared.name, r.val, ProjectFunctions).val
       /\ f.config.base_url
             = parse_data(declared.base_url, r.val, ProjectFunctions).val

\* runner f has started its steps 1..f.step and no other, each after the
\* result of the one before was recorded
InDeclaredOrder(f) ==
    /\ f.step \in 0..(Len(f.case.teststeps) + 1)
    /\ f.step = 0 => f.step_results = <<>> /\ f.tries = <<>>
    /\ f.step >= 1 => Len(f.step_results) = f.step - 1
    /\ TriedStep(f) \in {f.step - 1, f.step}
    /\ \A k \in 1..Len(f.step_results) :
           f.step_results[k].name = f.case.teststeps[k].name

\* the referenced test case that runs at depth d + 1 is the one of the step
\* at hand of runner d
NestedIsCurrent(d) ==
    d < Len(frames) =>
        /\ frames[d].pc = "waiting"
        /\ frames[d].case.teststeps[frames[d].step].kind = "testcase"
        /\ frames[d + 1].case = frames[d].case.teststeps[frames[d].step].testcase

\* C14: the config of a runner is resolved before its first step starts; the
\* steps start in their declared order, each only after the result of the one
\* before is recorded; the recorded results are in declared order.
C14_StepsInDeclaredOrder ==
    \A d \in 1..Len(frames) :
        /\ InDeclaredOrder(frames[d])
        /\ NestedIsCurrent(d)
        /\ frames[d].pc = "created" => frames[d].step = 0
        /\ frames[d].step >= 1 => ConfigResolved(d)

\* a run of two steps under a config whose name uses a config variable
C14_Witness ==
    /\ Len(frames) = 1
    /\ frames[1].pc = "finished"
    /\ frames[1].case.teststeps = <<StepLogin, StepUse>>
    /\ frames[1].case.config.name # frames[1].config.name
    /\ frames[1].config.name = VStr(<<"c","a","s","e"," ","c","f","g">>)
    /\ Len(frames[1].step_results) = 2
    /\ frames[1].step_results[1].name = "login"
    /\ frames[1].step_results[2].name = "use"

ResolutionErrors == {"VariableNotFound", "FunctionNotFound"}

\* the first error that resolving the variables, then the name, then the
\* base_url of the declared config of runner d raises, "ok" when none does
ConfigError(d) ==
    LET declared == frames[d].case.config
        r == parse_variables_mapping(Update(declared.variables, Seed(d)),
                                     ProjectFunctions)
        name == parse_data(declared.name, r.val, ProjectFunctions)
        base_url == parse_data(declared.base_url, r.val, ProjectFunctions)
    IN IF r.st # "ok" THEN r.st
       ELSE IF name.st # "ok" THEN name.st ELSE base_url.st

\* test_start of runner d raised error before any step: nothing attempted,
\* nothing recorded, the session variables as they were given
AbortedBeforeSteps(d, error) ==
    /\ frames[d].pc = "raised"
    /\ frames[d].error = error
    /\ frames[d].step = 0
    /\ frames[d].tries = <<>>
    /\ frames[d].step_results = <<>>
    /\ frames[d].session_variables = Seed(d)

\* C15: when resolving the config variables, name or base_url raises
\* VariableNotFound or FunctionNotFound, test_start raises that error with no
\* step attempted, no StepResult recorded and no session variable changed.
C15_ConfigErrorAbortsBeforeSteps ==
    \A d \in 1..Len(frames) :
        (frames[d].pc # "created" /\ ConfigError(d) \in ResolutionErrors)
            => AbortedBeforeSteps(d, ConfigError(d))

\* the config of a referenced test case names an undefined variable: its
\* test_start raised with the session variables the caller gave it
C15_Witness ==
    /\ Len(frames) = 2
    /\ frames[2].case = CaseBad
    /\ frames[2].session_variables # <<>>
    /\ AbortedBeforeSteps(2, "VariableNotFound")

\* the flag is true exactly when every result of the sequence is a success
FlagOfAll(flag, step_results) ==
    flag <=> \A k \in 1..Len(step_results) : step_results[k].success

\* C17: the success flag of a summary is true if and only if every StepResult
\* the runner recorded has success true, so that one result with success
\* false makes it false even when later steps ran and passed; the same holds
\* of the summary of a referenced test case, which its calling step records.
C17_SuccessIffEveryResultPassed ==
    /\ \A s \in AsSet(summary) :
           s.st = "ok" => FlagOfAll(s.success, frames[1].step_results)
    /\ \A d \in 1..Len(frames) : \A k \in 1..Len(frames[d].step_results) :
           frames[d].step_results[k].step_type = "testcase" =>
               FlagOfAll(frames[d].step_results[k].success,
                         frames[d].step_results[k].data.steps)

\* the first step did not succeed, the second passed: success is false
C17_Witness ==
    /\ summary # NoSummary
    /\ summary[1].st = "ok"
    /\ Len(summary[1].step_results) = 2
    /\ ~summary[1].step_results[1].success
    /\ summary[1].step_results[2].success
    /\ ~summary[1].success

-----------------------------------------------------------------------------
(* Referenced test cases.                                                  *)

\* the session variables of runner d are its seed updated with what its own
\* steps exported, and with nothing else
OwnSessionVariables(d) ==
    frames[d].session_variables
        = Exported(Seed(d), frames[d].step_results, Len(frames[d].step_results))

\* runner d, of a referenced test case, is a runner of its own on the session
\* and under the case_id of the runner that called it
SharesSession(d) ==
    /\ frames[d].is_referenced
    /\ frames[d].session = frames[d - 1].session
    /\ frames[d].case_id = frames[d - 1].case_id
    /\ frames[d].pc = "created" =>
          /\ frames[d].step_results = <<>>
          /\ frames[d].session_variables = frames[d - 1].scope

\* C16: at every nesting depth the runner of a referenced test case is a new
\* instance with the session object and the case_id of the calling runner;
\* its session variables are a mapping of its own, seeded from the caller's
\* merged and resolved step and config variables.
C16_NestedRunnerSharesSession ==
    /\ \A d \in 1..Len(frames) : OwnSessionVariables(d)
    /\ \A d \in 2..Len(frames) : SharesSession(d)
    /\ ~frames[1].is_referenced

\* three runners deep on one session: the innermost has exported token to
\* its own session variables, the callers' variables are as they were
C16_Witness ==
    /\ Len(frames) = 3
    /\ frames[3].pc = "finished"
    /\ frames[3].session = frames[1].session
    /\ frames[3].case_id = frames[1].case_id
    /\ frames[2].scope # <<>>
    /\ frames[3].session_variables # frames[2].scope
    /\ frames[2].session_variables = frames[1].scope

\* the names a referenced-test-case step exports: its own list, and the list
\* of the referenced test case's config only when its own is empty
NamesToExport(step) ==
    IF step.export # <<>> THEN AsSet(step.export)
    ELSE AsSet(step.testcase.config.export)

\* C18: the variables a referenced-test-case step exports are those of the
\* step's export list when that list is not empty, replacing the list of the
\* referenced test case's config, and those of the config's list only when
\* the step's list is empty.
C18_StepExportReplacesConfigExport ==
    \A d \in 1..Len(frames) :
        /\ d >= 2 => frames[d].export = CurrentStep(frames[d - 1]).export
        /\ \A k \in 1..Len(frames[d].step_results) :
               frames[d].step_results[k].step_type = "testcase" =>
                   Keys(frames[d].step_results[k].export_vars)
                       = NamesToExport(frames[d].case.teststeps[k])

\* the step exports x and the config of the test case it refers to exports
\* token: x is exported, token is not
C18_Witness ==
    /\ Len(frames) = 1
    /\ frames[1].case.teststeps[1] = StepRefLocal
    /\ StepRefLocal.testcase.config.export = <<TxtToken>>
    /\ Len(frames[1].step_results) >= 1
    /\ Keys(frames[1].step_results[1].export_vars) = {TxtX}
    /\ last_nested # NoNested
    /\ Has(last_nested[1].session_variables, TxtToken)

-----------------------------------------------------------------------------
(* The order of the function lookup and the expansion of parameters.       *)

\* the places a function is looked for, in the order of the search, each with
\* the names found there
SearchOrder(mapping) ==
    << <<"project", Keys(mapping)>>,
       <<"loader", {TxtParameterize, TxtP}>>,
       <<"utils", {TxtEnviron, TxtENV}>>,
       <<"uploader", {TxtMultipartEncoder, TxtMultipartContentType}>>,
       <<"builtin", BuiltinFunctionNames>>,
       <<"builtins", PyBuiltinNames>> >>

\* the first place of the search order that has the name, 0 when none has
FirstMatch(name, order) ==
    IF \A i \in 1..Len(order) : name \notin order[i][2] THEN 0
    ELSE CHOOSE i \in 1..Len(order) :
             /\ name \in order[i][2]
             /\ \A j \in 1..(i - 1) : name \notin order[j][2]

\* the callable of the place: the project's own function, the CSV loader,
\* the environment lookup, or the function of that name
CallableAt(place, name, mapping) ==
    CASE place = "project" -> Get(mapping, name)
      [] place = "loader" -> "load_csv_file"
      [] place = "utils" -> "get_os_environ"
      [] OTHER -> name

\* r is the outcome of looking name up by the search order
FoundInOrder(r, name, mapping) ==
    LET order == SearchOrder(mapping)
        i == FirstMatch(name, order)
    IN IF i = 0 THEN r.st = "FunctionNotFound"
       ELSE /\ r.st = "ok"
            /\ r.val = <<order[i][1], CallableAt(order[i][1], name, mapping)>>

\* C19: get_mapping_function returns the first match of the search order
\* project functions, CSV loader for parameterize and P, environment lookup
\* for environ and ENV, upload helpers, engine built-ins, Python built-ins,
\* and raises FunctionNotFound when nothing matches; a project function
\* shadows every reserved name and built-in of its name.
C19_LookupOrder ==
    \A r \in AsSet(call_result) :
        call_args.fn = "get_mapping_function" =>
            /\ FoundInOrder(r, call_args.function_name,
                            call_args.functions_mapping)
            /\ Has(call_args.functions_mapping, call_args.function_name) =>
                  r.val[1] = "project"

\* debugtalk.py defines P, environ, multipart_encoder, get_timestamp and
\* len: the lookup of P returns the project's function, not the CSV loader
C19_Witness ==
    /\ call_args # NoCall
    /\ call_args.fn = "get_mapping_function"
    /\ call_args.function_name = TxtP
    /\ call_args.functions_mapping = DebugtalkFunctions
    /\ call_result = <<[st |-> "ok", val |-> <<"project", "P">>]>>

\* the lists of dicts of the entries of parameters, entry by entry
EntryLists(parameters) ==
    [i \in 1..Len(parameters) |->
        parameter_content_list(parameters[i][1], parameters[i][2],
                               ParameterFunctions).val]

RECURSIVE ProductOfLengths(_, _)
\* the product of the lengths of the lists from the i-th on
ProductOfLengths(lists, i) ==
    IF i > Len(lists) THEN 1
    ELSE Len(lists[i]) * ProductOfLengths(lists, i + 1)

\* the item of the i-th list in the p-th combination when the first list
\* varies slowest: the lists after the i-th run through all their
\* combinations before the i-th moves on
ItemAt(lists, i, p) ==
    lists[i][(((p - 1) \div ProductOfLengths(lists, i + 1)) % Len(lists[i])) + 1]

RECURSIVE MergedUpTo(_, _, _)
\* the dicts of the first i lists in the p-th combination, merged in order
MergedUpTo(lists, i, p) ==
    IF i = 0 THEN <<>>
    ELSE Update(MergedUpTo(lists, i - 1, p), ItemAt(lists, i, p))

\* C20: parse_parameters returns the cartesian product of the lists of dicts
\* of the entries, one merged dict per combination, in the order of the
\* entries with the first entry varying slowest, so as many dicts as the
\* product of the lengths of the lists; {"a": [1, 2], "b": [10, 20]} gives
\* {a: 1, b: 10}, {a: 1, b: 20}, {a: 2, b: 10}, {a: 2, b: 20}.
C20_CartesianProductInOrder ==
    \A r \in AsSet(call_result) :
        (call_args.fn = "parse_parameters" /\ r.st = "ok") =>
            LET lists == EntryLists(call_args.parameters)
            IN /\ Len(r.val) = ProductOfLengths(lists, 1)
               /\ \A p \in 1..Len(r.val) :
                      r.val[p] = MergedUpTo(lists, Len(lists), p)

\* the example: a of 1, 2 and b of 10, 20 give the four dicts in this order
C20_Witness ==
    /\ call_args # NoCall
    /\ call_args.fn = "parse_parameters"
    /\ call_args.parameters
          = << <<<<"a">>, VList(<<VInt(1), VInt(2)>>)>>,
               <<<<"b">>, VList(<<VInt(10), VInt(20)>>)>> >>
    /\ call_result
          = <<[st |-> "ok",
               val |-> << << <<<<"a">>, VInt(1)>>, <<<<"b">>, VInt(10)>> >>,
                          << <<<<"a">>, VInt(1)>>, <<<<"b">>, VInt(20)>> >>,
                          << <<<<"a">>, VInt(2)>>, <<<<"b">>, VInt(10)>> >>,
                          << <<<<"a">>, VInt(2)>>, <<<<"b">>, VInt(20)>> >> >>]>>

-----------------------------------------------------------------------------
(* Exceptions of a step other than ValidationFailure.                      *)

\* a step of runner f raised an exception that is not a ValidationFailure
OtherError(f) ==
    f.pc = "raised" /\ f.step >= 1 /\ f.error # "ValidationFailure"

\* C21 as stated: a step whose run raises an exception other than
\* ValidationFailure has made exactly one attempt and the runner has not
\* waited.
C21_OtherErrorAfterOneAttempt ==
    \A d \in 1..Len(frames) :
        OtherError(frames[d]) =>
            Len(frames[d].tries) = 1 /\ frames[d].waits = <<>>

\* C21: an exception other than ValidationFailure raised by an attempt of a
\* step propagates out of the runner from that very attempt, whatever
\* retry_times is: no wait follows it and no further attempt; the attempts
\* before it, if any, are those that failed validation and were retried, so
\* the step made exactly one attempt when its first attempt raised it.
C21_OtherErrorIsNotRetried ==
    \A d \in 1..Len(frames) :
        OtherError(frames[d]) =>
            /\ frames[d].tries # <<>>
            /\ frames[d].tries[Len(frames[d].tries)] = frames[d].error
            /\ \A j \in 1..(Len(frames[d].tries) - 1) :
                   frames[d].tries[j] = "ValidationFailure"
            /\ Len(frames[d].waits) = Len(frames[d].tries) - 1
            /\ frames[d].i = Len(frames[d].tries) - 1
            /\ Len(frames[d].step_results) = frames[d].step - 1

\* the first attempt of a step that allows MaxRetry retries meets a transport
\* error: one attempt, no wait
C21_Witness ==
    /\ Len(frames) = 1
    /\ OtherError(frames[1])
    /\ CurrentStep(frames[1]).retry_times = MaxRetry
    /\ frames[1].tries = <<"TransportError">>
    /\ frames[1].waits = <<>>

-----------------------------------------------------------------------------
(* The hooks of a step that references a test case.                        *)

\* the referenced test case returned to the step that called it
NestedReturned == Len(frames) > 1 /\ Top(frames).pc = "finished"

\* the calling step, finished with its teardown hooks resolved against the
\* scope its setup hooks were resolved against
LeftWithStepScope ==
    LeaveWith(Top(Below(frames)), CurrentStep(Top(Below(frames))), Top(frames),
              call_hooks(CurrentStep(Top(Below(frames))).teardown_hooks,
                         Top(Below(frames)).scope),
              get_summary(Top(frames)))

\* C24: in a step that references a test case the teardown hooks are
\* evaluated against the same merged and resolved scope as the setup hooks:
\* the step ends as it ends with its teardown hooks resolved in that scope
C24_TeardownHooksSeeStepScope ==
    [][NestedReturned =>
           frames' = Below(Below(frames)) \o <<LeftWithStepScope>>]_vars

-----------------------------------------------------------------------------
(* What a step that references a test case leaves in the caller's session. *)

\* runner f is at a step that references a test case
AtTestCaseStep(f) ==
    /\ f.pc \in {"running", "waiting", "sleeping"}
    /\ f.step \in 1..Len(f.case.teststeps)
    /\ CurrentStep(f).kind = "testcase"

\* the names whose presence or value differs between mappings a and b
ChangedNames(a, b) ==
    {n \in Keys(a) \cup Keys(b) :
        \/ Has(a, n) # Has(b, n)
        \/ Has(a, n) /\ Has(b, n) /\ Get(a, n) # Get(b, n)}

\* n is exported by the referenced run that just finished on top of runner d
ExportedByNested(d, n) ==
    /\ d = Len(frames) - 1
    /\ Top(frames).pc = "finished"
    /\ n \in NamesToExport(CurrentStep(frames[d]))
    /\ Has(Top(frames).session_variables, n)
    /\ Has(frames'[d].session_variables, n)
    /\ Get(frames'[d].session_variables, n)
           = Get(Top(frames).session_variables, n)

-----------------------------------------------------------------------------
(* What an attempt and a completed step leave in the runner.               *)

\* runner f made an attempt that raised, and became g
AttemptRaised(f, g) ==
    f.pc \in {"running", "waiting"} /\ g.pc \in {"sleeping", "raised"}

\* runner f completed its current step and became g
StepCompleted(f, g) == f.pc \in {"running", "waiting"} /\ g.step # f.step

\* one result more, and the session variables updated with its export_vars
OneResultMerged(f, g) ==
    /\ g.step = f.step + 1
    /\ Len(g.step_results) = Len(f.step_results) + 1
    /\ SubSeq(g.step_results, 1, Len(f.step_results)) = f.step_results
    /\ g.step_results[Len(g.step_results)].name = CurrentStep(f).name
    /\ g.session_variables =
           Update(f.session_variables,
                  g.step_results[Len(g.step_results)].export_vars)

NothingRecorded(f, g) ==
    /\ g.step_results = f.step_results
    /\ g.session_variables = f.session_variables

\* C29: an attempt that raises, a ValidationFailure in particular, leaves
\* the step results and the session variables as they were; a step that
\* completes adds one result and merges its export_vars once, whatever the
\* number of attempts; a run that ended without abort has one result a step
C29_OneResultPerCompletedStep ==
    [][\A d \in 1..Len(frames) :
           d <= Len(frames') =>
               /\ AttemptRaised(frames[d], frames'[d]) =>
                      NothingRecorded(frames[d], frames'[d])
               /\ StepCompleted(frames[d], frames'[d]) =>
                      OneResultMerged(frames[d], frames'[d])
               /\ (frames[d].pc # "created" /\ frames'[d].step = frames[d].step)
                      => NothingRecorded(frames[d], frames'[d])
               /\ frames'[d].pc = "finished" =>
                      Len(frames'[d].step_results)
                          = Len(frames'[d].case.teststeps)]_vars

\* a run of two steps ended without abort; its last step passed in its
\* second attempt, after a ValidationFailure
C29_Witness ==
    /\ Len(frames) = 1
    /\ frames[1].pc = "finished"
    /\ Len(frames[1].case.teststeps) = 2
    /\ Len(frames[1].step_results) = 2
    /\ frames[1].tries = <<"ValidationFailure", "pass">>

-----------------------------------------------------------------------------
(* How often the functions of a variable's value are invoked.              *)

\* the number of function calls one evaluation of the value of n makes
WrittenCalls(n) ==
    Len(parse_data(Get(raw_mapping, n), parsed_variables, pvm_functions).calls)

\* C30: when parse_variables_mapping returns, each function call written in
\* a variable's value was invoked exactly once, whatever the order of the
\* keys: a pass that skips the variable invokes none of its functions
C30_EachFunctionInvokedOnce ==
    pvm_pc = "returned" =>
        \A i \in 1..Len(raw_mapping) :
            pvm_calls[raw_mapping[i][1]] = WrittenCalls(raw_mapping[i][1])

-----------------------------------------------------------------------------
(* A resolved mapping resolved again.                                      *)

\* C27: the mapping parse_variables_mapping returns is resolved again to
\* itself: the second resolution succeeds and changes nothing
C27_ResolvedMappingIsFixed ==
    pvm_pc = "returned" =>
        /\ parse_variables_mapping(parsed_variables, pvm_functions).st = "ok"
        /\ parse_variables_mapping(parsed_variables, pvm_functions).val
               = parsed_variables

-----------------------------------------------------------------------------
(* The scan of a raw string.                                               *)

\* the scan in progress or ended
Scanning == call_args # NoCall /\ call_args.fn = "parse_string"
                /\ call_result # NoCall

\* the regions follow one another from the first character on, none empty,
\* up to the position of the scan
LeftToRight(s) ==
    /\ \A k \in 1..Len(s.regions) :
           /\ s.regions[k].from <= s.regions[k].to
           /\ s.regions[k].from =
                  IF k = 1 THEN 1 ELSE s.regions[k-1].to + 1
    /\ s.pos = IF s.regions = <<>> THEN 1
               ELSE s.regions[Len(s.regions)].to + 1

\* what the priority "$$", then a function call, then a variable, gives at a
\* position where a "$" stands
KindAt(raw, i) ==
    IF i < Len(raw) /\ raw[i+1] = "$" THEN "dollar"
    ELSE IF function_match(raw, i).matched THEN "func"
    ELSE IF variable_match(raw, i).matched THEN "var"
    ELSE "remain"

\* a region that was copied: its text as it stands, up to the next "$"
Copied(raw, g) ==
    /\ g.out = SubSeq(raw, g.from, g.to)
    /\ \A i \in (g.from + 1)..g.to : raw[i] # "$"
    /\ g.to = Len(raw) \/ raw[g.to + 1] = "$"

RegionRight(raw, g) ==
    /\ raw[g.from] = "$" => g.kind = KindAt(raw, g.from)
    /\ raw[g.from] # "$" => g.kind \in {"text", "remain"}
    /\ g.kind \in {"text", "remain"} => Copied(raw, g)
    /\ g.kind = "dollar" => g.out = <<"$">> /\ g.to = g.from + 1

OutOf(s) == Concat([k \in 1..Len(s.regions) |-> s.regions[k].out])

\* the value of a string that is one function call or one variable reference
\* is returned as it is
WholeReturn(s) ==
    s.pc = "returned" /\ Len(s.regions) = 1
        /\ s.regions[1].kind \in {"func", "var"}

\* C26: the scan of a raw string ends, and goes over every character once,
\* from left to right: at a "$" it takes "$$", else a function call, else a
\* variable reference, else copies the "$" with the text up to the next "$";
\* the text returned is the texts of the regions in their order, the copied
\* ones as they stand in the input
C26_ScanCoversEveryCharacterOnce ==
    Scanning =>
        /\ LeftToRight(call_result[1])
        /\ Len(call_result[1].regions) <= Len(call_args.raw_string)
        /\ \A k \in 1..Len(call_result[1].regions) :
               RegionRight(call_args.raw_string, call_result[1].regions[k])
        /\ call_result[1].pc = "returned" =>
               /\ call_result[1].pos = Len(call_args.raw_string) + 1
               /\ WholeReturn(call_result[1])
                      \/ call_result[1].val = VStr(OutOf(call_result[1]))
        /\ call_result[1].pc = "while" =>
               call_result[1].parsed_string = OutOf(call_result[1])

\* a scan that ended after it copied a "$" that matched nothing and replaced
\* a variable reference or a function call
C26_Witness ==
    /\ Scanning
    /\ call_result[1].pc = "returned"
    /\ \E k \in 1..Len(call_result[1].regions) :
           /\ call_result[1].regions[k].kind = "remain"
           /\ call_args.raw_string[call_result[1].regions[k].from] = "$"
    /\ \E k \in 1..Len(call_result[1].regions) :
           call_result[1].regions[k].kind \in {"var", "func"}

-----------------------------------------------------------------------------
(* Names a variable references that the raw mapping does not define.       *)

\* the names the value of variable n references that are no keys of m
UndefinedNames(m, n) == (ValueRefs(m, n) \cup KeyRefs(m, n)) \ Keys(m)

\* the for loop went past position i without raising
WentPast(i) == pvm_pc \in {"for", "while", "returned"} /\ var_idx > i

\* C25: a variable whose value references a name that is no key of the raw
\* mapping is never skipped and never resolved: the loop does not go past it,
\* the exception raised at it is VariableNotFound, and no mapping is returned
C25_UndefinedNameIsRaised ==
    \A i \in 1..Len(raw_mapping) :
        UndefinedNames(raw_mapping, raw_mapping[i][1]) # {} =>
            /\ ~WentPast(i)
            /\ pvm_pc # "returned"
            /\ (pvm_pc = "raised" /\ var_idx = i) =>
                   pvm_error = "VariableNotFound"

\* the items of an entry: those of its data list, or those of the list its
\* function call returns
ItemsOf(content) ==
    IF Tag(content) = "list" THEN content[2]
    ELSE LET r == parse_data(content, <<>>, ParameterFunctions)
         IN IF Tag(content) = "str" /\ r.st = "ok" /\ Tag(r.val) = "list"
            THEN r.val[2] ELSE <<>>

\* the item has not as many values as there are names: a sequence of another
\* length, or a scalar for several names
WrongNumber(names, item) ==
    \/ Tag(item) = "list" /\ Len(item[2]) # Len(names)
    \/ Tag(item) \notin {"list", "dict"} /\ Len(names) # 1

\* an entry of parameters has an item with a wrong number of values
SomeWrongNumber(parameters) ==
    \E i \in 1..Len(parameters) :
        \E k \in 1..Len(ItemsOf(parameters[i][2])) :
            WrongNumber(split(parameters[i][1], "-"),
                        ItemsOf(parameters[i][2])[k])

\* the names the entries of parameters declare
DeclaredNames(parameters) ==
    UNION {AsSet(split(parameters[i][1], "-")) : i \in 1..Len(parameters)}

\* C23: an item of an entry, data list or function call alike, that has not
\* as many values as the entry has names makes parse_parameters raise
\* ParamsError; no dict that parse_parameters returns lacks a declared name.
C23_WrongNumberIsParamsError ==
    \A r \in AsSet(call_result) :
        call_args.fn = "parse_parameters" =>
            /\ SomeWrongNumber(call_args.parameters) => r.st = "ParamsError"
            /\ r.st = "ok" =>
                  \A p \in 1..Len(r.val) :
                      DeclaredNames(call_args.parameters) \subseteq Keys(r.val[p])

-----------------------------------------------------------------------------
(* The dependency check on nested content.                                 *)

\* C22: extract_variables returns every variable name that resolving the
\* same content with parse_data looks up, names in mapping keys and in the
\* arguments of function calls included, so that resolution raises
\* VariableNotFound only for content of which extract_variables has returned
\* a name that the mapping lacks.
C22_ExtractCoversLookups ==
    \A r \in AsSet(call_result) :
        call_args.fn = "extract_variables" =>
            /\ AsSet(r.parsed.looks) \subseteq r.found
            /\ r.parsed.st = "VariableNotFound" =>
                  r.found \ Keys(call_args.variables_mapping) # {}

-----------------------------------------------------------------------------
(* What a segmented template denotes, segment by segment (section 4.1 of   *)
(* the specification): the reading the claims about parse_string compare   *)
(* the scanner with.                                                       *)

SegsOf(ss) == [i \in 1..Len(ss) |-> Tokens[ss[i]]]

IsBlank(tok) ==
    tok.kind = "lit" /\ \A i \in 1..Len(tok.text) : tok.text[i] \in StripChars

\* the segments left when the blank segments at both ends are dropped
Trimmed(ts) ==
    IF \A i \in 1..Len(ts) : IsBlank(ts[i]) THEN <<>>
    ELSE LET lo == CHOOSE i \in 1..Len(ts) :
                       ~IsBlank(ts[i]) /\ \A j \in 1..(i-1) : IsBlank(ts[j])
             hi == CHOOSE i \in 1..Len(ts) :
                       ~IsBlank(ts[i]) /\ \A j \in (i+1)..Len(ts) : IsBlank(ts[j])
         IN SubSeq(ts, lo, hi)

\* no lone "$", and no $name directly followed by a word character
WellFormed(ts) ==
    /\ \A i \in 1..Len(ts) : ts[i].kind # "raw"
    /\ \A i \in 1..(Len(ts)-1) :
           (ts[i].kind = "var" /\ ts[i].text[2] # "{")
               => ts[i+1].text[1] \notin WordChars

SegArgs(tok, mapping) == [i \in 1..Len(tok.args) |-> Get(mapping, tok.args[i])]

SegResolvable(tok, mapping, functions) ==
    CASE tok.kind = "var" -> Has(mapping, tok.name)
      [] tok.kind = "func" ->
           /\ Has(functions, tok.name)
           /\ \A i \in 1..Len(tok.args) : Has(mapping, tok.args[i])
           /\ Apply(<<"project", Get(functions, tok.name)>>,
                    SegArgs(tok, mapping), <<>>).st = "ok"
      [] tok.kind = "raw" -> FALSE
      [] OTHER -> TRUE

SegValue(tok, mapping, functions) ==
    CASE tok.kind = "var" -> Get(mapping, tok.name)
      [] tok.kind = "func" ->
           Apply(<<"project", Get(functions, tok.name)>>,
                 SegArgs(tok, mapping), <<>>).val
      [] tok.kind = "esc" -> VStr(<<"$">>)
      [] OTHER -> VStr(tok.text)

SegText(ts, mapping, functions) ==
    Concat([i \in 1..Len(ts) |-> Str(SegValue(ts[i], mapping, functions))])

HasKind(ts, kinds) == \E i \in 1..Len(ts) : ts[i].kind \in kinds
OnlyKinds(ts, kinds) == \A i \in 1..Len(ts) : ts[i].kind \in kinds
AllResolvable(ts) ==
    \A i \in 1..Len(ts) : SegResolvable(ts[i], variables_mapping, functions_mapping)

NoDollar(s) == \A i \in 1..Len(s) : s[i] # "$"

\* r is s without the spaces and tabs at its two ends
IsStripped(r, s) ==
    /\ \E i \in 0..Len(s) : \E j \in i..Len(s) :
           /\ r = SubSeq(s, i+1, j)
           /\ \A k \in (1..i) \cup ((j+1)..Len(s)) : s[k] \in StripChars
    /\ (r = <<>> \/ (r[1] \notin StripChars /\ r[Len(r)] \notin StripChars))

-----------------------------------------------------------------------------
(* Claims about parse_string and parse_data (SpecTemplate).                *)

\* C4, as stated: resolving a string without "$" returns exactly that string,
\* also when it begins or ends with spaces or tabs.
C4_NoDollarReturnedExactly ==
    (t_pc # "input" /\ NoDollar(raw_data[2]))
        => (parsed.st = "ok" /\ parsed.val = raw_data)

\* C4, amended: resolving a string s without "$" returns s without its
\* leading and trailing spaces and tabs, and exactly s when s neither begins
\* nor ends with one; no variable is looked up and no function is called.
C4_NoDollarReturnedStripped ==
    (t_pc # "input" /\ NoDollar(raw_data[2]))
        => /\ parsed.st = "ok"
           /\ IsStr(parsed.val)
           /\ IsStripped(parsed.val[2], raw_data[2])
           /\ (At(raw_data[2], 1) \notin StripChars
                  /\ At(raw_data[2], Len(raw_data[2])) \notin StripChars)
                  => parsed.val = raw_data
           /\ parsed.calls = <<>> /\ parsed.looks = <<>>

C4_Witness ==
    /\ t_pc = "resolved" /\ NoDollar(raw_data[2])
    /\ At(raw_data[2], 1) \in StripChars
    /\ \E i \in 1..Len(raw_data[2]) : raw_data[2][i] \notin StripChars
    /\ parsed.st = "ok" /\ parsed.val # raw_data

\* C5: in a template of literal text and "$$" escapes, every "$$" becomes one
\* "$" and the text after it is not looked up: the result is the text with
\* each "$$" replaced by "$" ("$$" gives "$", "$$n" gives "$n" whether or not
\* n is defined), no variable is looked up, and extract_variables reports
\* no name.
C5_EscapeIsLiteralDollar ==
    LET ts == Trimmed(SegsOf(segs))
    IN (t_pc # "input" /\ OnlyKinds(SegsOf(segs), {"lit", "esc"})
            /\ HasKind(ts, {"esc"}))
           => /\ parsed.st = "ok"
              /\ parsed.val = VStr(SegText(ts, variables_mapping, functions_mapping))
              /\ parsed.looks = <<>>
              /\ (t_pc = "extracted" => found = {})

C5_Witness ==
    /\ t_pc = "extracted"
    /\ raw_data = VStr(<<"$", "$", "n">>)
    /\ Has(variables_mapping, <<"n">>)
    /\ parsed.val = VStr(<<"$", "n">>)
    /\ found = {}

\* C6: a raw string that is exactly one variable reference or exactly one
\* function call (spaces and tabs around it aside) resolves to the
\* variable's value or the function's return value itself, with its type.
C6_WholeStringNative ==
    LET ts == Trimmed(SegsOf(segs))
    IN (t_pc # "input" /\ Len(ts) = 1 /\ ts[1].kind \in {"var", "func"}
            /\ AllResolvable(ts))
           => /\ parsed.st = "ok"
              /\ parsed.val = SegValue(ts[1], variables_mapping, functions_mapping)

C6_Witness ==
    /\ t_pc = "resolved"
    /\ Len(segs) = 1 /\ Tokens[segs[1]].name = TxtAddOne
    /\ parsed.st = "ok" /\ parsed.val = VInt(4)

\* C7, as stated: a raw string holding literal text together with variable
\* references or function calls resolves to a string, the concatenation of
\* its literal runs and stringified substitutions in order.
C7_MixedIsConcatenation ==
    LET ts == SegsOf(segs)
    IN (t_pc # "input" /\ WellFormed(ts) /\ HasKind(ts, {"lit", "esc"})
            /\ HasKind(ts, {"var", "func"}) /\ AllResolvable(ts))
           => /\ parsed.st = "ok"
              /\ IsStr(parsed.val)
              /\ parsed.val[2] = SegText(ts, variables_mapping, functions_mapping)

\* C7, amended: once the spaces and tabs at both ends of the raw string are
\* dropped, a raw string holding literal text together with variable
\* references or function calls resolves to a string, the concatenation of
\* its literal runs and stringified substitutions in order.
C7_TrimmedMixedIsConcatenation ==
    LET ts == Trimmed(SegsOf(segs))
    IN (t_pc # "input" /\ WellFormed(ts) /\ HasKind(ts, {"lit", "esc"})
            /\ HasKind(ts, {"var", "func"}) /\ AllResolvable(ts))
           => /\ parsed.st = "ok"
              /\ IsStr(parsed.val)
              /\ parsed.val[2] = SegText(ts, variables_mapping, functions_mapping)

C7_Witness ==
    /\ t_pc = "resolved"
    /\ raw_data = VStr(<<"v","a","l","=","$","{","a","d","d","_","o","n","e",
                         "(","$","n",")","}">>)
    /\ parsed.val = VStr(<<"v","a","l","=","4">>)

====
